---- MODULE Spec2Model ----
(***************************************************************************)
(* Teleconsole: the broadcaster's session-broker data plane.               *)
(*                                                                         *)
(* The model follows clt.StartBroadcast step by step: every blocking call  *)
(* (a broker request, a call into the embedded SSH site) is one action,    *)
(* and the answers of the broker and of the site are chosen                *)
(* nondeterministically from small sets.                                   *)
(***************************************************************************)
EXTENDS Integers, Sequences, FiniteSets, TLC

(***************************************************************************)
(* Program constants and model bounds                                      *)
(***************************************************************************)

\* A loop that follows one redirect too many.
maxRedirectsOneMore == 2 + 1

\* const maxRedirects = 2 in APIClient.CheckVersion
maxRedirects == 2

\* A tunnel check that probes once more, and one that gives up one probe early.
attemptsOneMore == 10 + 1
attemptsOneLess == 10 - 1

\* const attempts = 10 in the shell-created callback
attempts == 10

\* http.StatusOK and http.StatusTemporaryRedirect
StatusOK == 200
StatusTemporaryRedirect == 307

\* statuses by which the broker refuses a request
RefusalStatuses == {404, 500}

\* Bound of the model: the number of fruitless polls of the site's session
\* list that the model tells apart (the counter saturates there).
MaxPolls == 1

(***************************************************************************)
(* Identity (package lib)                                                  *)
(***************************************************************************)

\* user.Current().Username on the broadcaster's machine
OsUser == "alice"

\* a nil or empty byte slice
NoKey == ""

\* The private-key files the -i flag can name: path -> what ssh.ParseRawPrivateKey
\* and filepath.Base yield for it, and the authorized-key line that
\* ssh.MarshalAuthorizedKey makes of the public key (it ends with a newline).
KeyFiles ==
    [ p \in {"/home/alice/.ssh/id_rsa", "/srv/keys/id_rsa", "/srv/keys/id_ecdsa",
             "/srv/keys/id_ed25519"} |->
        CASE p = "/home/alice/.ssh/id_rsa" ->
                [Base |-> "id_rsa", Format |-> "rsa", Pub |-> "ssh-rsa AAAA-file-rsa\n", Priv |-> "PEM-file-rsa"]
          [] p = "/srv/keys/id_rsa" ->
                [Base |-> "id_rsa", Format |-> "rsa", Pub |-> "ssh-rsa AAAA-srv-rsa\n", Priv |-> "PEM-srv-rsa"]
          [] p = "/srv/keys/id_ecdsa" ->
                [Base |-> "id_ecdsa", Format |-> "ecdsa", Pub |-> "ecdsa AAAA-file-ec\n", Priv |-> "PEM-file-ec"]
          [] OTHER ->
                [Base |-> "id_ed25519", Format |-> "ed25519", Pub |-> "ed25519 AAAA-file-ed\n", Priv |-> "PEM-file-ed"] ]

\* The key-discovery service: user name -> the public keys it returns
\* (a name outside the domain is answered with an error document).
GithubKeys ==
    [ u \in {"bob", "carol", "dave"} |->
        CASE u = "bob" -> <<"ssh-rsa AAAA-bob-0", "ssh-rsa AAAA-bob-1">>
          [] u = "carol" -> <<"ssh-rsa AAAA-carol-0">>
          \* dave has published the public half of /home/alice/.ssh/id_rsa
          [] OTHER -> <<"ssh-rsa AAAA-file-rsa">> ]

\* utils.IsFile
IsFile(item) == item \in DOMAIN KeyFiles

\* A failed call: its error, and no value.
Failure(e) == [err |-> e, logins |-> <<>>]

anonymousLogins ==
    [err |-> "",
     logins |-> << [Username |-> OsUser,
                    Key |-> [Pub |-> "ssh-rsa AAAA-anon", Priv |-> "PEM-anon"]] >>]

loginFromFile(fp) ==
    IF ~IsFile(fp) THEN Failure("read_file")
    ELSE LET f == KeyFiles[fp] IN
         IF f.Format \notin {"rsa", "dsa", "ecdsa"}
         THEN Failure("unsupported_key_format")
         ELSE [err |-> "",
               logins |-> << [Username |-> f.Base,
                              Key |-> [Pub |-> f.Pub, Priv |-> f.Priv]] >>]

loginsFromGithub(username) ==
    IF username \notin DOMAIN GithubKeys THEN Failure("github")
    ELSE LET keys == GithubKeys[username] IN
         [err |-> "",
          logins |-> [i \in 1..Len(keys) |->
                        [Username |-> username \o ToString(i - 1),
                         Key |-> [Pub |-> keys[i], Priv |-> NoKey]]]]

\* loginsFrom, on the parsed list of identity sources
RECURSIVE loginsFrom(_)
loginsFrom(idSources) ==
    IF idSources = <<>> THEN [err |-> "", logins |-> <<>>]
    ELSE LET idSrc == Head(idSources)
             one == IF IsFile(idSrc) THEN loginFromFile(idSrc)
                                     ELSE loginsFromGithub(idSrc)
         IN IF one.err # "" THEN Failure(one.err)
            ELSE LET rest == loginsFrom(Tail(idSources)) IN
                 IF rest.err # "" THEN Failure(rest.err)
                 ELSE [err |-> "", logins |-> one.logins \o rest.logins]

NoIdentity == [Anonymous |-> FALSE, Username |-> "", Logins |-> <<>>]

\* MakeIdentity: the empty source makes the anonymous identity
MakeIdentity(idPath) ==
    LET anonymous == (idPath = <<>>)
        r == IF anonymous THEN anonymousLogins ELSE loginsFrom(idPath)
    IN IF r.err # "" THEN [err |-> r.err, identity |-> NoIdentity]
       ELSE [err |-> "",
             identity |-> [Anonymous |-> anonymous, Username |-> OsUser, Logins |-> r.logins]]

\* MakeIdentityFromFile: a named identity with the one login of the file
MakeIdentityFromFile(idFile) ==
    LET login == loginFromFile(idFile) IN
    IF login.err # "" THEN [err |-> login.err, identity |-> NoIdentity]
    ELSE [err |-> "",
          identity |-> [Anonymous |-> FALSE, Username |-> OsUser, Logins |-> login.logins]]

\* strings.TrimSpace, on key lines: white space is found only at their end
RECURSIVE TrimSpace(_)
TrimSpace(str) ==
    IF Len(str) > 0 /\ SubSeq(str, Len(str), Len(str)) \in {"\n", " "}
    THEN TrimSpace(SubSeq(str, 1, Len(str) - 1))
    ELSE str

\* Identity.PrivateKeyFor: the private key of the first login whose public
\* key is the given one, white space aside; NoKey (nil) when there is none.
PrivateKeyFor(this, publicKey) ==
    LET pk == TrimSpace(publicKey)
        found == {i \in 1..Len(this.Logins) : TrimSpace(this.Logins[i].Key.Pub) = pk}
    IN IF found = {} THEN NoKey
       ELSE this.Logins[CHOOSE i \in found : \A j \in found : i <= j].Key.Priv

\* The login a Go map keeps for a label: the last one written under it.
LastLogin(logins, label) ==
    logins[CHOOSE i \in 1..Len(logins) :
              /\ logins[i].Username = label
              /\ \A j \in (i + 1)..Len(logins) : logins[j].Username # label]

\* A LoginUsers that allows only the login's own label.
LoginUsersLabelOnly(this) ==
    [ label \in {this.Logins[i].Username : i \in 1..Len(this.Logins)} |->
        LET login == LastLogin(this.Logins, label) IN
        [Username |-> login.Username,
         Key |-> [Pub |-> login.Key.Pub, Priv |-> login.Key.Priv],
         AllowedLogins |-> <<login.Username>>] ]

LoginUsers(this) ==
    [ label \in {this.Logins[i].Username : i \in 1..Len(this.Logins)} |->
        LET login == LastLogin(this.Logins, label) IN
        [Username |-> login.Username,
         Key |-> [Pub |-> login.Key.Pub, Priv |-> login.Key.Priv],
         AllowedLogins |-> IF this.Username # login.Username
                           THEN <<this.Username, login.Username>>
                           ELSE <<this.Username>>] ]

\* An AnnounceUsers that forgets to strip the private keys.
AnnounceUsersKeepingKeys(this) == LoginUsers(this)

AnnounceUsers(this) ==
    LET users == LoginUsers(this) IN
    IF ~this.Anonymous
    THEN [u \in DOMAIN users |-> [users[u] EXCEPT !.Key.Priv = NoKey]]
    ELSE users

\* An AnnounceUsers whose users share the Key structs of the logins: the
\* nil it stores in a user's key is stored in the identity's login too.
IdentityAfterAnnounceUsersSharedKeys(this) ==
    IF ~this.Anonymous
    THEN [this EXCEPT !.Logins =
            [i \in 1..Len(this.Logins) |-> [this.Logins[i] EXCEPT !.Key.Priv = NoKey]]]
    ELSE this

\* The identity AnnounceUsers leaves behind. The users it strips come from
\* LoginUsers, which allocates a User and a client.Key for each login
\* (part_000:236-243): `u.Key.Priv = nil` (part_000:256) writes the field of
\* that copy, and the logins of the identity keep their keys.
IdentityAfterAnnounceUsers(this) ==
    [this EXCEPT !.Logins = [i \in 1..Len(this.Logins) |-> this.Logins[i]]]

\* An empty user map
NoUsers == [u \in {} |-> 0]

\* Writing every entry of `more` into the map `users` (later writes win).
MergeUsers(users, more) ==
    [u \in DOMAIN users \cup DOMAIN more |->
        IF u \in DOMAIN more THEN more[u] ELSE users[u]]

(***************************************************************************)
(* Broker client (APIClient)                                               *)
(***************************************************************************)

\* A host:port string, kept as its two parts; port "" is a string without
\* a ":port" suffix.
HostPort(h, p) == [host |-> h, port |-> p]

\* net.SplitHostPort: a string without a port is an error, and the error
\* result carries empty strings.
SplitHostPort(hp) ==
    IF hp.port = "" THEN [host |-> "", port |-> "", err |-> "missing port in address"]
    ELSE [host |-> hp.host, port |-> hp.port, err |-> ""]

\* net.JoinHostPort
JoinHostPort(h, p) == HostPort(h, p)

\* conf.DefaultServerHost and conf.DefaultServerPort
DefaultServerHost == "teleconsole.com"
DefaultServerPort == "443"

\* Config.SetEndpointHost
SetEndpointHost(hostPort) ==
    IF hostPort.port = ""
    THEN [Scheme |-> "https", Host |-> HostPort(hostPort.host, DefaultServerPort)]
    ELSE [Scheme |-> "https", Host |-> HostPort(hostPort.host, hostPort.port)]

\* a nil *url.URL
NilURL == [Scheme |-> "nil", Host |-> HostPort("nil", "")]

\* Config.GetEndpointHost
GetEndpointHost(c) ==
    IF c.APIEndpointURL = NilURL THEN DefaultServerHost
    ELSE SplitHostPort(c.APIEndpointURL.Host).host

\* A table whose Asian endpoint was given a prefix of hex digits.
EndpointsHexPrefix ==
    << [Hostname |-> "teleconsole.com", SessionPrefix |-> ""],
       [Hostname |-> "eu.teleconsole.com", SessionPrefix |-> "eu"],
       [Hostname |-> "as.teleconsole.com", SessionPrefix |-> "ae"] >>

\* geo.Endpoints: the table of hosts and their session prefixes
Endpoints ==
    << [Hostname |-> DefaultServerHost, SessionPrefix |-> ""],
       [Hostname |-> "eu.teleconsole.com", SessionPrefix |-> "eu"],
       [Hostname |-> "as.teleconsole.com", SessionPrefix |-> "as"] >>

\* A SesionPrefixFor that looks the string up as it is given.
SesionPrefixForWholeString(endpoint) ==
    IF endpoint.port = "" /\ \E i \in 1..Len(Endpoints) : Endpoints[i].Hostname = endpoint.host
    THEN Endpoints[CHOOSE i \in 1..Len(Endpoints) :
                      Endpoints[i].Hostname = endpoint.host].SessionPrefix
    ELSE ""

\* geo.SesionPrefixFor: the endpoint is a host or a host:port string
SesionPrefixFor(endpoint) ==
    LET split == SplitHostPort(endpoint)
        name == IF split.host # "" THEN split.host ELSE endpoint.host
    IN IF \E i \in 1..Len(Endpoints) : Endpoints[i].Hostname = name
       THEN Endpoints[CHOOSE i \in 1..Len(Endpoints) :
                         /\ Endpoints[i].Hostname = name
                         /\ \A j \in 1..(i - 1) : Endpoints[j].Hostname # name].SessionPrefix
       ELSE ""

\* strings.HasPrefix
HasPrefix(str, prefix) ==
    Len(str) >= Len(prefix) /\ SubSeq(str, 1, Len(prefix)) = prefix

\* The entries of the table whose non-empty prefix begins the session id
PrefixMatches(sid) ==
    {i \in 1..Len(Endpoints) :
        Len(Endpoints[i].SessionPrefix) > 0 /\ HasPrefix(sid, Endpoints[i].SessionPrefix)}

\* An EndpointForSession that does not pass over the empty prefix.
EndpointForSessionAnyPrefix(sid) ==
    LET ep == Endpoints[CHOOSE i \in 1..Len(Endpoints) :
                           /\ HasPrefix(sid, Endpoints[i].SessionPrefix)
                           /\ \A j \in 1..(i - 1) : ~HasPrefix(sid, Endpoints[j].SessionPrefix)]
    IN <<ep.Hostname, SubSeq(sid, Len(ep.SessionPrefix) + 1, Len(sid))>>

\* geo.EndpointForSession: the host of the first entry whose prefix begins
\* the id, and the id without that prefix
EndpointForSession(sid) ==
    IF PrefixMatches(sid) = {} THEN <<Endpoints[1].Hostname, sid>>
    ELSE LET ep == Endpoints[CHOOSE i \in PrefixMatches(sid) :
                                \A j \in PrefixMatches(sid) : i <= j]
         IN <<ep.Hostname, SubSeq(sid, Len(ep.SessionPrefix) + 1, Len(sid))>>

\* geo.IsGeobalancedSession
IsGeobalancedSession(sid) == EndpointForSession(sid)[2] # sid

\* The Location headers the broker may send; "" is a missing header.
Locations == {"", "https://us2.teleconsole.com:443", "https://eu.teleconsole.com", "://bad"}

\* url.Parse on the Locations above
ParseURL(ep) ==
    CASE ep = "https://us2.teleconsole.com:443" ->
            [err |-> "", url |-> [Scheme |-> "https", Host |-> HostPort("us2.teleconsole.com", "443")]]
      [] ep = "https://eu.teleconsole.com" ->
            [err |-> "", url |-> [Scheme |-> "https", Host |-> HostPort("eu.teleconsole.com", "")]]
      [] ep = "" ->
            [err |-> "", url |-> [Scheme |-> "", Host |-> HostPort("", "")]]
      [] OTHER -> [err |-> "missing protocol scheme", url |-> NilURL]

\* What http.Client.Do can return: a transport error, or a response.
Response(err, code, location, body) ==
    [err |-> err, StatusCode |-> code, Location |-> location, Body |-> body]

NoResponse == Response("", 0, "", "")

TransportErrors == {Response("connect", 0, "", ""), Response("x509_unknown_authority", 0, "", "")}

Refusals == {Response("", code, "", "message") : code \in RefusalStatuses}

VersionResponses ==
    TransportErrors \cup Refusals
    \cup {Response("", StatusTemporaryRedirect, l, "") : l \in Locations}
    \cup {Response("", StatusOK, "", b) : b \in {"version", "malformed"}}

\* A request as the broker sees it.
Request(method, host, path, users, body) ==
    [method |-> method, host |-> host, path |-> path, users |-> users, body |-> body]

\* A CheckVersion that does not look for a missing Location.
CheckVersionStepAnyLocation(endpoint, i, resp) ==
    IF resp.err # ""
    THEN [Endpoint |-> endpoint, i |-> i, result |-> "transport"]
    ELSE IF resp.StatusCode = StatusTemporaryRedirect
    THEN LET u == ParseURL(resp.Location) IN
         IF u.err # ""
         THEN [Endpoint |-> u.url, i |-> i, result |-> "invalid_redirect"]
         ELSE IF i + 1 <= maxRedirects
         THEN [Endpoint |-> u.url, i |-> i + 1, result |-> "continue"]
         ELSE [Endpoint |-> u.url, i |-> i + 1, result |-> "http"]
    ELSE IF resp.StatusCode # StatusOK
    THEN [Endpoint |-> endpoint, i |-> i, result |-> "http"]
    ELSE IF resp.Body = "malformed"
    THEN [Endpoint |-> endpoint, i |-> i, result |-> "malformed"]
    ELSE [Endpoint |-> endpoint, i |-> i, result |-> ""]

\* One pass of the loop of CheckVersion on the response to its GET: the
\* endpoint and the loop counter afterwards, and "continue" or the result
\* CheckVersion returns ("" is a nil error).
CheckVersionStep(endpoint, i, resp) ==
    IF resp.err # ""
    THEN [Endpoint |-> endpoint, i |-> i, result |-> "transport"]
    ELSE IF resp.StatusCode = StatusTemporaryRedirect
    THEN IF resp.Location = ""
         THEN [Endpoint |-> endpoint, i |-> i, result |-> "invalid_redirect"]
         ELSE LET u == ParseURL(resp.Location) IN
              IF u.err # ""
              THEN [Endpoint |-> u.url, i |-> i, result |-> "invalid_redirect"]
              ELSE IF i + 1 <= maxRedirects
              THEN [Endpoint |-> u.url, i |-> i + 1, result |-> "continue"]
              \* the loop is over with the redirect as the last response
              ELSE [Endpoint |-> u.url, i |-> i + 1, result |-> "http"]
    ELSE IF resp.StatusCode # StatusOK
    THEN [Endpoint |-> endpoint, i |-> i, result |-> "http"]
    ELSE IF resp.Body = "malformed"
    THEN [Endpoint |-> endpoint, i |-> i, result |-> "malformed"]
    ELSE [Endpoint |-> endpoint, i |-> i, result |-> ""]

(***************************************************************************)
(* The broadcaster process: clt.StartBroadcast                             *)
(***************************************************************************)

VARIABLES
    pc,          \* where StartBroadcast stands
    conf,        \* *conf.Config
    Endpoint,    \* APIClient.Endpoint
    SessionID,   \* APIClient.SessionID
    cvI,         \* the loop counter of CheckVersion
    cvResp,      \* the last response CheckVersion received
    wire,        \* every request sent to the broker, in order
    me,          \* the local anonymous identity
    them,        \* the identity announced to joining parties
    ports,       \* the result of GetFreePorts
    localUsers,  \* localServer.Secrets.Users
    sess,        \* the session RequestNewSession returned
    site,        \* the local SSH site: "none", "instance", "created", "running", "stopped"
    dataDir,     \* the site's data directory: "none", "exists", "deleted"
    deferred,    \* onStopBroadcast is deferred
    sshClient,   \* the self-SSH client: "none", "open", "closed"
    emptyPolls,  \* polls of the site's session list that found nothing (saturating)
    sessions,    \* the session list the last poll of publishSession was given
    pollErr,     \* the error the last poll of publishSession was given ("" is nil)
    probe,       \* the last tunnel check: "none", "failed", "empty" or "found"
    statsI,      \* the loop counter of the tunnel check
    shown,       \* the session id printed to the user ("" when none was)
    panicking,   \* a run-time panic is unwinding the process
    err,         \* what StartBroadcast or Join returns ("" is nil, "-" is not returned yet)
    join,        \* the state of a join command (NoJoin in a broadcast)
    geo,         \* a call of the geo package on its own (NoGeo otherwise)
    lib,         \* a call of lib.ParseForwardAddr on its own (NoLib otherwise)
    holster,     \* a holster container on its own (NoHolster otherwise)
    agent        \* a reverse-tunnel agent on its own (NoAgent otherwise)

vars == <<pc, conf, Endpoint, SessionID, cvI, cvResp, wire, me, them, ports,
          localUsers, sess, site, dataDir, deferred, sshClient, emptyPolls,
          sessions, pollErr, probe, statsI, shown, panicking, err, join, geo, lib, holster, agent>>

\* What only StartBroadcast writes
broadcastVars == <<SessionID, cvI, cvResp, me, them, ports, localUsers, sess, site,
                   dataDir, deferred, sshClient, emptyPolls, sessions, pollErr, probe,
                   statsI, shown, panicking>>

\* No join command and no call of the geo package
NoJoin == [cmd |-> "none"]
NoGeo == [op |-> "none"]

\* No call of lib.ParseForwardAddr, and no holster container
NoLib == [op |-> "none"]
NoHolster == [kind |-> "none"]

\* No reverse-tunnel agent
NoAgent == [kind |-> "none"]

\* The values of the -i flag (the fields of its comma-separated list).
IdentitySources ==
    { <<>>,
      <<"/home/alice/.ssh/id_rsa">>,
      <<"bob">>,
      <<"/srv/keys/id_ecdsa", "carol">>,
      <<"/home/alice/.ssh/id_rsa", "/srv/keys/id_rsa">>,
      <<"/srv/keys/id_ed25519">>,
      <<"nobody">> }

\* The endpoints App.Start can leave in the configuration: the fastest
\* endpoint of the table, or the host given with -s.
ConfiguredHosts ==
    { HostPort(DefaultServerHost, ""), HostPort("eu.teleconsole.com", ""),
      HostPort("lab.example.org", "8443") }

\* The invited port of -f (nil when the flag is absent).
NoPort == [DestHost |-> "", DestPort |-> 0]
InvitedPorts == {NoPort, [DestHost |-> "localhost", DestPort |-> 5000]}

\* A configuration as NewApp and App.Start leave it.
Config(h, fp, inv, src) ==
    [APIEndpointURL |-> SetEndpointHost(h), ForwardPorts |-> fp,
     ForwardPort |-> inv, IdentityFile |-> src]

Configs ==
    { Config(h, "nil", NoPort, src) :
         h \in ConfiguredHosts, src \in {<<>>, <<"bob">>} }
    \cup
    { Config(HostPort(DefaultServerHost, ""), "nil", inv, src) :
         inv \in InvitedPorts, src \in IdentitySources }
    \cup
    { Config(HostPort(DefaultServerHost, ""), "set", NoPort, <<>>) }

\* utils.CryptoRandomHex(20): 40 hex digits
WebSessionIDs ==
    {"0a1b2c3d4e5f60718293a4b5c6d7e8f901234567", "deadbeefcafe0123456789abcdef0123456789ab"}

NoSession == [ID |-> "", Users |-> NoUsers, ListenAddr |-> HostPort("", ""),
              ProxyHostPort |-> HostPort("", "")]

\* The broadcaster's state before StartBroadcast has done anything
BroadcastIdle ==
    /\ SessionID = ""
    /\ cvI = 0
    /\ cvResp = NoResponse
    /\ me = NoIdentity
    /\ them = NoIdentity
    /\ ports = <<>>
    /\ localUsers = NoUsers
    /\ sess = NoSession
    /\ site = "none"
    /\ dataDir = "none"
    /\ deferred = FALSE
    /\ sshClient = "none"
    /\ emptyPolls = 0
    /\ sessions = <<>>
    /\ pollErr = ""
    /\ probe = "none"
    /\ statsI = 0
    /\ shown = ""
    /\ panicking = FALSE

Init ==
    /\ pc = "start"
    /\ conf \in Configs
    /\ Endpoint = conf.APIEndpointURL
    /\ SessionID = ""
    /\ cvI = 0
    /\ cvResp = NoResponse
    /\ wire = <<>>
    /\ me = NoIdentity
    /\ them = NoIdentity
    /\ ports = <<>>
    /\ localUsers = NoUsers
    /\ sess = NoSession
    /\ site = "none"
    /\ dataDir = "none"
    /\ deferred = FALSE
    /\ sshClient = "none"
    /\ emptyPolls = 0
    /\ sessions = <<>>
    /\ pollErr = ""
    /\ probe = "none"
    /\ statsI = 0
    /\ shown = ""
    /\ panicking = FALSE
    /\ err = "-"
    /\ join = NoJoin
    /\ geo = NoGeo
    /\ lib = NoLib
    /\ holster = NoHolster
    /\ agent = NoAgent

\* StartBroadcast returns e: the deferred onStopBroadcast runs first.
Return(e) ==
    /\ err' = e
    /\ pc' = IF deferred THEN "stop_site" ELSE "done"

\* APIClient.GET and APIClient.POST: the request goes to the current endpoint.
Send(method, path, users, body) ==
    wire' = Append(wire, Request(method, Endpoint.Host, path, users, body))

\* clt.go:56-58
Preconditions ==
    /\ pc = "start"
    /\ UNCHANGED <<join, geo, lib, holster, agent>>
    /\ IF conf.ForwardPorts # "nil"
       THEN Return("config")
       ELSE pc' = "check_version" /\ err' = err
    /\ UNCHANGED <<conf, Endpoint, SessionID, cvI, cvResp, wire, me, them, ports,
                   localUsers, sess, site, dataDir, deferred, sshClient,
                   emptyPolls, sessions, pollErr, probe, statsI, shown, panicking>>

\* A StartBroadcast that goes on whatever CheckVersion returned.
VersionCheckIgnored(result) == TRUE

\* clt.go:60: StartBroadcast goes on only when CheckVersion returned nil.
VersionCheckPassed(result) == result = ""

\* One pass of the loop of CheckVersion: the GET and what follows from its answer.
CheckVersion ==
    /\ pc = "check_version"
    /\ UNCHANGED <<join, geo, lib, holster, agent>>
    /\ \E resp \in VersionResponses :
         LET step == CheckVersionStep(Endpoint, cvI, resp) IN
         /\ Send("GET", "/api/version", NoUsers, "")
         /\ cvResp' = resp
         /\ Endpoint' = step.Endpoint
         /\ cvI' = step.i
         /\ IF step.result = "continue" THEN pc' = pc /\ err' = err
            ELSE IF VersionCheckPassed(step.result) THEN pc' = "make_identity" /\ err' = err
            ELSE Return(step.result)
    /\ UNCHANGED <<conf, SessionID, me, them, ports, localUsers, sess, site,
                   dataDir, deferred, sshClient, emptyPolls, sessions, pollErr, probe, statsI, shown,
                   panicking>>

\* clt.go:63-78: the anonymous identity `me`, and `them` from the -i flag
MakeIdentities ==
    /\ pc = "make_identity"
    /\ UNCHANGED <<join, geo, lib, holster, agent>>
    /\ LET mine == MakeIdentity(<<>>)
           theirs == IF conf.IdentityFile # <<>> THEN MakeIdentity(conf.IdentityFile)
                                                 ELSE mine
       IN IF mine.err # "" THEN Return(mine.err) /\ UNCHANGED <<me, them>>
          ELSE IF theirs.err # "" THEN Return(theirs.err) /\ me' = mine.identity /\ them' = them
          ELSE /\ me' = mine.identity
               /\ them' = theirs.identity
               /\ pc' = "get_ports"
               /\ err' = err
    /\ UNCHANGED <<conf, Endpoint, SessionID, cvI, cvResp, wire, ports, localUsers,
                   sess, site, dataDir, deferred, sshClient, emptyPolls, sessions, pollErr, probe, statsI,
                   shown, panicking>>

\* the number of ports StartBroadcast asks for
NumPorts == 5

\* lib.GetFreePorts(n), where listen[j] is what the j-th getFreePort() call
\* returns (0 when the listener could not be opened). The error it returns
\* wraps the outer err, which is still nil.
GetFreePorts(n, listen) ==
    [ports |-> [k \in 1..n |->
                  IF \A j \in 1..(n - k + 1) : listen[j] # 0
                  THEN listen[n - k + 1] ELSE 0],
     err |-> ""]

\* The ways the listeners can turn out: all open, or the second one fails.
ListenOutcomes ==
    { [j \in 1..NumPorts |-> IF j = f THEN 0 ELSE 3020 + j] : f \in {0, 2} }

\* clt.go:79-83
AllocatePorts ==
    /\ pc = "get_ports"
    /\ UNCHANGED <<join, geo, lib, holster, agent>>
    /\ \E listen \in ListenOutcomes :
         LET r == GetFreePorts(NumPorts, listen) IN
         /\ ports' = r.ports
         /\ IF r.err # "" THEN Return(r.err)
            ELSE pc' = "new_instance" /\ err' = err
    /\ UNCHANGED <<conf, Endpoint, SessionID, cvI, cvResp, wire, me, them,
                   localUsers, sess, site, dataDir, deferred, sshClient,
                   emptyPolls, sessions, pollErr, probe, statsI, shown, panicking>>

\* A site that is given the broadcaster's own login before the request.
SiteUsersMergedEarly(mine, theirs) ==
    MergeUsers(AnnounceUsers(theirs), LoginUsers(mine))

\* The users the local site is given before the broker is asked for a
\* proxy (clt.go:87).
SiteUsersBeforeRequest(mine, theirs) == AnnounceUsers(theirs)

\* clt.go:84-87: integration.NewInstance and the announced users
NewInstance ==
    /\ pc = "new_instance"
    /\ UNCHANGED <<join, geo, lib, holster, agent>>
    /\ site' = "instance"
    /\ localUsers' = SiteUsersBeforeRequest(me, them)
    /\ them' = IdentityAfterAnnounceUsers(them)
    \* clt.go:77: without -i `them` and `me` are one identity
    /\ me' = IF conf.IdentityFile = <<>> THEN IdentityAfterAnnounceUsers(me) ELSE me
    /\ pc' = "request_session"
    /\ UNCHANGED <<conf, Endpoint, SessionID, cvI, cvResp, wire, ports,
                   sess, dataDir, deferred, sshClient, emptyPolls, sessions, pollErr, probe, statsI, shown,
                   panicking, err>>

SessionResponses ==
    TransportErrors \cup Refusals
    \cup {Response("", StatusOK, "", b) : b \in {"session", "malformed"}}

\* The addresses the broker reports for the proxy it created: it does not
\* know the DNS name it is reached by.
BrokerListenAddr == HostPort("10.0.0.7", "3024")
BrokerProxyAddr == HostPort("10.0.0.7", "3023")

\* APIClient.RequestNewSession, called at clt.go:97
RequestNewSession ==
    /\ pc = "request_session"
    /\ UNCHANGED <<join, geo, lib, holster, agent>>
    /\ \E sid \in WebSessionIDs, resp \in SessionResponses :
         /\ SessionID' = sid
         /\ wire' = Append(wire, Request("POST", Endpoint.Host, "/api/sessions", localUsers, sid))
         /\ IF resp.err # "" THEN Return("transport") /\ sess' = sess
            ELSE IF resp.StatusCode # StatusOK THEN Return("http") /\ sess' = sess
            ELSE IF resp.Body = "malformed" THEN Return("malformed") /\ sess' = sess
            ELSE /\ sess' = [ID |-> sid, Users |-> localUsers,
                             ListenAddr |-> BrokerListenAddr,
                             ProxyHostPort |-> BrokerProxyAddr]
                 /\ pc' = "create_site"
                 /\ err' = err
    /\ UNCHANGED <<conf, Endpoint, cvI, cvResp, me, them, ports, localUsers, site,
                   dataDir, deferred, sshClient, emptyPolls, sessions, pollErr, probe, statsI, shown,
                   panicking>>

\* lib.ReplaceHost
ReplaceHost(hostPort, newHost) ==
    LET nh == SplitHostPort(newHost).host
        hp == SplitHostPort(hostPort)
    IN IF hp.err = "" /\ hp.port # "" THEN JoinHostPort(nh, hp.port)
       ELSE HostPort(nh, "")

\* clt.go:102-120: the reverse tunnel's address, the trusted users, CreateEx
CreateSite ==
    /\ pc = "create_site"
    /\ UNCHANGED <<join, geo, lib, holster, agent>>
    /\ LET users == MergeUsers(sess.Users, LoginUsers(me)) IN
       /\ sess' = [sess EXCEPT !.ListenAddr = ReplaceHost(sess.ListenAddr, Endpoint.Host),
                               !.Users = users]
       /\ localUsers' = users
    /\ \E created \in BOOLEAN :
         IF created
         THEN site' = "created" /\ dataDir' = "exists" /\ pc' = "start_site" /\ err' = err
         ELSE Return("create_site") /\ UNCHANGED <<site, dataDir>>
    /\ UNCHANGED <<conf, Endpoint, SessionID, cvI, cvResp, wire, me, them, ports,
                   deferred, sshClient, emptyPolls, sessions, pollErr, probe, statsI, shown, panicking>>

\* clt.go:122-126: localServer.Start, then the deferred onStopBroadcast
StartSite ==
    /\ pc = "start_site"
    /\ UNCHANGED <<join, geo, lib, holster, agent>>
    /\ \E started \in BOOLEAN :
         IF started
         THEN site' = "running" /\ deferred' = TRUE /\ pc' = "new_client" /\ err' = err
         ELSE Return("start_site") /\ UNCHANGED <<site, deferred>>
    /\ UNCHANGED <<conf, Endpoint, SessionID, cvI, cvResp, wire, me, them, ports,
                   localUsers, sess, dataDir, sshClient, emptyPolls, sessions, pollErr, probe, statsI, shown,
                   panicking>>

\* clt.go:128-133: localServer.NewClient
NewClient ==
    /\ pc = "new_client"
    /\ UNCHANGED <<join, geo, lib, holster, agent>>
    /\ \E built \in BOOLEAN :
         IF built
         THEN sshClient' = "created" /\ pc' = "ssh" /\ err' = err
         ELSE Return("new_client") /\ sshClient' = sshClient
    /\ UNCHANGED <<conf, Endpoint, SessionID, cvI, cvResp, wire, me, them, ports,
                   localUsers, sess, site, dataDir, deferred, emptyPolls, sessions, pollErr, probe, statsI,
                   shown, panicking>>

\* The shell-created callback returned (TRUE, e): sshClient.SSH ends the
\* client and returns e to StartBroadcast (clt.go:168-170).
ExitShell(e) ==
    /\ sshClient' = "closed"
    /\ Return(e)

\* clt.go:168: sshClient.SSH connects to the local site and creates the shell
SSH ==
    /\ pc = "ssh"
    /\ UNCHANGED <<join, geo, lib, holster, agent>>
    /\ \E connected \in BOOLEAN :
         IF connected
         THEN sshClient' = "shell" /\ pc' = "publish_session" /\ err' = err
         ELSE ExitShell("ssh")
    /\ UNCHANGED <<conf, Endpoint, SessionID, cvI, cvResp, wire, me, them, ports,
                   localUsers, sess, site, dataDir, deferred, emptyPolls, sessions, pollErr, probe, statsI,
                   shown, panicking>>

(***************************************************************************)
(* The shell-created callback: publishSession and the tunnel check         *)
(***************************************************************************)

\* TeleInstance.Stop: the site and its outbound tunnel are closed.
TeleInstanceStop(s) == IF s \in {"created", "running"} THEN "stopped" ELSE s

\* What stands between publishSession and the site's API (clt.go:192-205).
SiteAPIOutcomes == {"ok", "tunnel_nil", "get_site", "get_client"}

\* clt.go:192-205: the tunnel handle, the site and its client
PublishSessionSetup ==
    /\ pc = "publish_session"
    /\ UNCHANGED <<join, geo, lib, holster, agent>>
    /\ \E o \in SiteAPIOutcomes :
         IF o = "ok"
         THEN pc' = "publish_poll" /\ err' = err /\ sshClient' = sshClient
         ELSE ExitShell(o)
    /\ UNCHANGED <<conf, Endpoint, SessionID, cvI, cvResp, wire, me, them, ports,
                   localUsers, sess, site, dataDir, deferred, emptyPolls, sessions, pollErr, probe, statsI,
                   shown, panicking>>

\* What siteAPI.GetSessions can report: an error, or the list of the
\* site's live sessions.
SessionLists ==
    { [err |-> "unavailable", sessions |-> <<>>],
      [err |-> "", sessions |-> <<>>],
      [err |-> "", sessions |-> <<"tsid-2", "tsid-1">>] }

PublishResponses ==
    TransportErrors \cup Refusals \cup {Response("", StatusOK, "", "")}

\* The poll of publishSession that the sessions `got` end: TRUE when the
\* loop goes round again without publishing.
PollsAgain(got) == got.err # "" \/ Len(got.sessions) = 0

\* The id publishSession posts for the sessions it was given.
PublishedID(list) == list[1]

\* A publisher that tries again after a failed POST.
AfterPublishRetry(e) == IF e # "" THEN "continue" ELSE "break"

\* What publishSession does once PublishSessionID has returned e: "break"
\* leaves the loop.
AfterPublish(e) == "break"

\* clt.go:206-224: one pass of the polling loop. PublishSessionID reads the
\* response before it looks at the error, so a failed POST panics.
PublishPoll ==
    /\ pc = "publish_poll"
    /\ UNCHANGED <<join, geo, lib, holster, agent>>
    /\ \E got \in SessionLists :
         IF PollsAgain(got)
         THEN /\ emptyPolls' = IF emptyPolls < MaxPolls THEN emptyPolls + 1 ELSE emptyPolls
              /\ sessions' = got.sessions
              /\ pollErr' = got.err
              /\ UNCHANGED <<pc, wire, site>>
         ELSE /\ Send("POST", "/api/session/" \o SessionID, NoUsers, PublishedID(got.sessions))
              /\ emptyPolls' = emptyPolls
              /\ sessions' = got.sessions
              /\ pollErr' = got.err
              /\ \E resp \in PublishResponses :
                   IF resp.err # ""
                   THEN pc' = "panic" /\ site' = site
                   ELSE LET e == IF resp.StatusCode # StatusOK THEN "http" ELSE "" IN
                        /\ site' = IF e # "" THEN TeleInstanceStop(site) ELSE site
                        /\ pc' = IF AfterPublish(e) = "break" THEN "stats" ELSE pc
    /\ UNCHANGED <<conf, Endpoint, SessionID, cvI, cvResp, me, them, ports,
                   localUsers, sess, dataDir, deferred, sshClient, probe, statsI,
                   shown, panicking, err>>

StatsResponses ==
    TransportErrors \cup Refusals
    \cup {Response("", StatusOK, "", b) : b \in {"parties:0", "parties:1", "malformed"}}

\* APIClient.GetSessionStats: the error it returns for a response
GetSessionStatsError(resp) ==
    IF resp.err # "" THEN "transport"
    ELSE IF resp.StatusCode # StatusOK THEN "http"
    ELSE IF resp.Body = "malformed" THEN "malformed"
    ELSE ""

\* APIClient.friendlyProxyURL drops the port 443 of an https endpoint, in place.
friendlyProxyURL(u) ==
    LET hp == SplitHostPort(u.Host) IN
    IF hp.err = "" /\ hp.port = "443" /\ u.Scheme = "https"
    THEN [u EXCEPT !.Host = HostPort(hp.host, "")]
    ELSE u

\* What the callback returns when a stats request has failed.
StatsFailure(e) == "tunnel_not_established"

\* clt.go:146-165: one pass of the tunnel check
CheckTunnel ==
    /\ pc = "stats"
    /\ UNCHANGED <<join, geo, lib, holster, agent>>
    /\ statsI < attempts
    /\ \E resp \in StatsResponses :
         LET e == GetSessionStatsError(resp) IN
         /\ Send("GET", "/api/sessions/" \o SessionID \o "/stats", NoUsers, "")
         /\ IF e # ""
            THEN /\ ExitShell(StatsFailure(e))
                 /\ probe' = "failed"
                 /\ UNCHANGED <<statsI, shown, Endpoint, conf>>
            ELSE IF resp.Body = "parties:1"
            THEN /\ probe' = "found"
                 /\ shown' = SesionPrefixFor(HostPort(GetEndpointHost(conf), "")) \o SessionID
                 /\ IF them.Anonymous
                    THEN /\ Endpoint' = friendlyProxyURL(Endpoint)
                         \* without a redirect the client and the configuration
                         \* share one URL object
                         /\ conf' = IF cvI = 0
                                    THEN [conf EXCEPT !.APIEndpointURL = friendlyProxyURL(Endpoint)]
                                    ELSE conf
                    ELSE UNCHANGED <<Endpoint, conf>>
                 /\ pc' = "shell"
                 /\ UNCHANGED <<statsI, sshClient, err>>
            ELSE /\ statsI' = statsI + 1
                 /\ probe' = "empty"
                 /\ UNCHANGED <<shown, Endpoint, conf>>
                 /\ IF statsI + 1 < attempts
                    THEN UNCHANGED <<pc, sshClient, err>>
                    ELSE ExitShell("tunnel_not_established")
    /\ UNCHANGED <<SessionID, cvI, cvResp, me, them, ports, localUsers, sess, site,
                   dataDir, deferred, emptyPolls, sessions, pollErr, panicking>>

\* clt.go:168-174: the shell runs until it exits, and SSH returns
ShellExit ==
    /\ pc = "shell"
    /\ UNCHANGED <<join, geo, lib, holster, agent>>
    /\ \E e \in {"", "ssh"} : ExitShell(e)
    /\ UNCHANGED <<conf, Endpoint, SessionID, cvI, cvResp, wire, me, them, ports,
                   localUsers, sess, site, dataDir, deferred, emptyPolls, sessions, pollErr, probe, statsI,
                   shown, panicking>>

\* A panic unwinds the goroutine it happened in: the deferred
\* onStopBroadcast runs if that is StartBroadcast's goroutine, and the
\* process dies either way.
PanicUnwind ==
    /\ pc = "panic"
    /\ UNCHANGED <<join, geo, lib, holster, agent>>
    /\ panicking' = TRUE
    /\ \/ deferred /\ pc' = "stop_site"
       \/ pc' = "crashed"
    /\ UNCHANGED <<conf, Endpoint, SessionID, cvI, cvResp, wire, me, them, ports,
                   localUsers, sess, site, dataDir, deferred, sshClient,
                   emptyPolls, sessions, pollErr, probe, statsI, shown, err>>

\* An onStopBroadcast that deletes the data directory before it stops the site.
RemoveBeforeStop ==
    /\ pc = "stop_site"
    /\ UNCHANGED <<join, geo, lib, holster, agent>>
    /\ dataDir' = "deleted"
    /\ pc' = "remove_data"
    /\ UNCHANGED <<conf, Endpoint, SessionID, cvI, cvResp, wire, me, them, ports,
                   localUsers, sess, site, deferred, sshClient, emptyPolls,
                   sessions, pollErr, probe, statsI, shown, panicking, err>>

\* onStopBroadcast, clt.go:179: local.Stop(true)
StopBroadcastSite ==
    /\ pc = "stop_site"
    /\ UNCHANGED <<join, geo, lib, holster, agent>>
    /\ site' = TeleInstanceStop(site)
    /\ pc' = "remove_data"
    /\ UNCHANGED <<conf, Endpoint, SessionID, cvI, cvResp, wire, me, them, ports,
                   localUsers, sess, dataDir, deferred, sshClient, emptyPolls,
                   sessions, pollErr, probe, statsI, shown, panicking, err>>

\* onStopBroadcast, clt.go:180-185: os.RemoveAll(local.Config.DataDir)
RemoveDataDir ==
    /\ pc = "remove_data"
    /\ UNCHANGED <<join, geo, lib, holster, agent>>
    /\ \E removed \in BOOLEAN :
         dataDir' = IF removed THEN "deleted" ELSE dataDir
    /\ pc' = IF panicking THEN "crashed" ELSE "done"
    /\ UNCHANGED <<conf, Endpoint, SessionID, cvI, cvResp, wire, me, them, ports,
                   localUsers, sess, site, deferred, sshClient, emptyPolls,
                   sessions, pollErr, probe, statsI, shown, panicking, err>>

Next ==
    \/ Preconditions
    \/ CheckVersion
    \/ MakeIdentities
    \/ AllocatePorts
    \/ NewInstance
    \/ RequestNewSession
    \/ CreateSite
    \/ StartSite
    \/ NewClient
    \/ SSH
    \/ PublishSessionSetup
    \/ PublishPoll
    \/ CheckTunnel
    \/ ShellExit
    \/ PanicUnwind
    \/ StopBroadcastSite
    \/ RemoveDataDir

Spec == Init /\ [][Next]_vars

\* The broadcast with a process that is never suspended for ever: whenever
\* StartBroadcast can take a step it eventually takes one.
SpecLive == Init /\ [][Next]_vars /\ WF_vars(Next)

(***************************************************************************)
(* The join command: App.Join, clt.Join and findUserFor                    *)
(***************************************************************************)

\* App.IsEndpointSpecified: the client's endpoint is not the default one
IsEndpointSpecified(endpoint) ==
    endpoint.Host # JoinHostPort(DefaultServerHost, DefaultServerPort)

\* The session ids a joiner may have been given: as shown by a broadcaster
\* on the default, the European or the Asian endpoint.
VisibleIDs ==
    {"0a1b2c3d4e5f60718293a4b5c6d7e8f901234567",
     "eu0a1b2c3d4e5f60718293a4b5c6d7e8f901234567",
     "asdeadbeefcafe0123456789abcdef0123456789ab"}

\* os.Args after the flags
JoinArgs == {<<"join">>} \cup {<<"join", id>> : id \in VisibleIDs}

\* What filepath.Glob("~/.ssh/id_*") finds on the joiner's machine
HomeKeyGlobs ==
    { <<>>,
      <<"/home/alice/.ssh/id_dsa.pub">>,
      <<"/home/alice/.ssh/id_dsa.pub", "/home/alice/.ssh/id_rsa">> }

\* The values of -i given to a join
JoinIdentityFiles ==
    {<<>>, <<"/home/alice/.ssh/id_rsa">>, <<"/srv/keys/id_ecdsa">>,
     <<"/srv/keys/id_ed25519">>, <<"bob">>}

\* The configuration NewApp leaves for a join: no -s, or -s with a host
JoinConfigs ==
    { Config(h, "nil", NoPort, src) : h \in ConfiguredHosts, src \in JoinIdentityFiles }
    \cup
    { Config(HostPort(DefaultServerHost, ""), "nil", inv, <<>>) : inv \in InvitedPorts }
    \cup
    \* teleconsole -L 8080:localhost:80 join <id>
    { Config(HostPort(DefaultServerHost, ""), "set", NoPort, <<>>) }

\* The identity sources of the broadcasters whose sessions the broker holds
AnnouncedSources ==
    { <<>>, <<"/home/alice/.ssh/id_rsa">>, <<"dave">>,
      <<"/srv/keys/id_ecdsa", "carol">>, <<"bob">> }

\* lib.Session as GetSessionDetails decodes it
JoinSession(users, node, fport) ==
    [Users |-> users, ProxyHostPort |-> BrokerProxyAddr, NodeHostPort |-> node,
     Login |-> OsUser, TSID |-> "tsid-2", ForwardedPort |-> fport]

NoJoinSession == JoinSession(NoUsers, HostPort("", ""), NoPort)

\* The sessions the broker can answer with: the secrets are the announce
\* users of their broadcaster.
BrokerSessions ==
    { JoinSession(AnnounceUsers(MakeIdentity(src).identity), HostPort("127.0.0.1", "3022"), NoPort) :
         src \in AnnouncedSources }
    \cup
    { JoinSession(AnnounceUsers(MakeIdentity(<<>>).identity), node, fport) :
         node \in {HostPort("127.0.0.1", "3022"), HostPort("127.0.0.1", "")},
         fport \in InvitedPorts }

\* The answers to GET /api/sessions/<id>
DetailsResponses ==
    { [resp |-> r, session |-> NoJoinSession] :
         r \in TransportErrors \cup Refusals \cup {Response("", StatusOK, "", "malformed")} }
    \cup
    { [resp |-> Response("", StatusOK, "", "session"), session |-> sn] : sn \in BrokerSessions }

\* A GetSessionDetails that asks for the statistics of the session instead.
GetSessionDetailsPathStats(wsid) == "/api/sessions/" \o wsid \o "/stats"

\* APIClient.GetSessionDetails: the path it GETs
GetSessionDetailsPath(wsid) == "/api/sessions/" \o wsid

\* APIClient.GetSessionDetails: the error it returns for a response
GetSessionDetailsError(resp) ==
    IF resp.err # "" THEN "transport"
    ELSE IF resp.StatusCode # StatusOK THEN "http"
    ELSE IF resp.Body = "malformed" THEN "malformed"
    ELSE ""

\* Session.GetNodeHostPort: the error it returns
GetNodeHostPortError(session) == SplitHostPort(session.NodeHostPort).err

NoUser == [Username |-> "", Key |-> [Pub |-> NoKey, Priv |-> NoKey], AllowedLogins |-> <<>>]

\* findUserFor, first loop: the session's users that carry a private key
UsersWithKey(session) ==
    {un \in DOMAIN session.Users : Len(session.Users[un].Key.Priv) > 0}

\* matchingUserFor: the users it can synthesize for the identity i (the
\* one it yields is the first the map iteration comes to)
MatchingUsers(i, session) ==
    { [Username |-> un,
       Key |-> [Pub |-> session.Users[un].Key.Pub,
                Priv |-> PrivateKeyFor(i, session.Users[un].Key.Pub)],
       AllowedLogins |-> session.Users[un].AllowedLogins] :
         un \in {n \in DOMAIN session.Users :
                    PrivateKeyFor(i, session.Users[n].Key.Pub) # NoKey} }

FoundUser(u, read) == [err |-> "", user |-> u, read |-> read]
NoUserFound(e, read) == [err |-> e, user |-> NoUser, read |-> read]

\* findUserFor, the search of ~/.ssh: files that make no identity are skipped
RECURSIVE SearchHomeKeys(_, _, _)
SearchHomeKeys(session, matches, read) ==
    IF matches = <<>> THEN {NoUserFound("key_mismatch", read)}
    ELSE LET fp == Head(matches)
             i == MakeIdentityFromFile(fp)
         IN IF i.err = "" /\ MatchingUsers(i.identity, session) # {}
            THEN {FoundUser(u, read \cup {fp}) : u \in MatchingUsers(i.identity, session)}
            ELSE SearchHomeKeys(session, Tail(matches), read \cup {fp})

\* A findUserFor that tries the joiner's own keys before the session's.
findUserForOwnKeyFirst(session, fp, matches) ==
    IF fp # ""
    THEN LET i == MakeIdentityFromFile(fp) IN
         IF i.err # "" THEN {NoUserFound(i.err, {fp})}
         ELSE IF MatchingUsers(i.identity, session) # {}
         THEN {FoundUser(u, {fp}) : u \in MatchingUsers(i.identity, session)}
         ELSE IF UsersWithKey(session) # {}
         THEN {FoundUser(session.Users[un], {fp}) : un \in UsersWithKey(session)}
         ELSE {NoUserFound("key_mismatch", {fp})}
    ELSE IF UsersWithKey(session) # {}
    THEN {FoundUser(session.Users[un], {}) : un \in UsersWithKey(session)}
    ELSE SearchHomeKeys(session, matches, {})

\* A findUserFor that takes the first session user for any identity it could load.
findUserForAnyKey(session, fp, matches) ==
    IF UsersWithKey(session) # {}
    THEN {FoundUser(session.Users[un], {}) : un \in UsersWithKey(session)}
    ELSE IF fp # ""
    THEN LET i == MakeIdentityFromFile(fp) IN
         IF i.err # "" THEN {NoUserFound(i.err, {fp})}
         ELSE {FoundUser([Username |-> un,
                          Key |-> [Pub |-> session.Users[un].Key.Pub,
                                   Priv |-> i.identity.Logins[1].Key.Priv],
                          AllowedLogins |-> session.Users[un].AllowedLogins], {fp}) :
                  un \in DOMAIN session.Users}
    ELSE SearchHomeKeys(session, matches, {})

\* findUserFor(session, fp), with `matches` what the glob of ~/.ssh finds:
\* the results it can return (the order of a map iteration is not fixed),
\* each with the key files it has read.
findUserFor(session, fp, matches) ==
    IF UsersWithKey(session) # {}
    THEN {FoundUser(session.Users[un], {}) : un \in UsersWithKey(session)}
    ELSE IF fp # ""
    THEN LET i == MakeIdentityFromFile(fp) IN
         IF i.err # "" THEN {NoUserFound(i.err, {fp})}
         ELSE IF MatchingUsers(i.identity, session) # {}
         THEN {FoundUser(u, {fp}) : u \in MatchingUsers(i.identity, session)}
         ELSE {NoUserFound("key_mismatch", {fp})}
    ELSE SearchHomeKeys(session, matches, {})

\* A loop that tries to join once more.
joinAttemptsOneMore == 3 + 1

\* clt.go:313: for i := 0; i < 3; i++
joinAttempts == 3

\* The errors tc.Join can return ("" is nil)
JoinErrors == {"", "dial", "auth"}

InitJoin ==
    /\ pc = "app_join"
    /\ conf \in JoinConfigs
    /\ Endpoint = conf.APIEndpointURL
    /\ wire = <<>>
    /\ err = "-"
    /\ BroadcastIdle
    /\ geo = NoGeo
    /\ lib = NoLib
    /\ holster = NoHolster
    /\ agent = NoAgent
    /\ \E args \in JoinArgs, glob \in HomeKeyGlobs :
         join = [cmd |-> "join", Args |-> args, homeKeys |-> glob, specified |-> FALSE,
                 sid |-> "", session |-> NoJoinSession, user |-> NoUser,
                 read |-> {}, tc |-> "none", i |-> 0, tried |-> <<>>]

\* Join or App.Join returns e
JoinReturn(e) == err' = e /\ pc' = "done"

\* App.Join, part_022:153-167
AppJoin ==
    /\ pc = "app_join"
    /\ IF Len(join.Args) < 2
       THEN JoinReturn("need_session_id") /\ UNCHANGED <<conf, Endpoint, join>>
       ELSE /\ pc' = "join"
            /\ err' = err
            /\ IF ~IsEndpointSpecified(Endpoint)
               THEN LET decoded == EndpointForSession(join.Args[2])
                        url == SetEndpointHost(HostPort(decoded[1], ""))
                    IN /\ join' = [join EXCEPT !.sid = decoded[2]]
                       /\ IF decoded[1] # ""
                          THEN /\ conf' = [conf EXCEPT !.APIEndpointURL = url]
                               /\ Endpoint' = url
                          ELSE UNCHANGED <<conf, Endpoint>>
               ELSE /\ join' = [join EXCEPT !.sid = join.Args[2], !.specified = TRUE]
                    /\ UNCHANGED <<conf, Endpoint>>
    /\ UNCHANGED <<wire, geo>>
    /\ UNCHANGED broadcastVars /\ UNCHANGED <<lib, holster, agent>>

\* A Join that never looks at the -f flag.
HasForwardPortIgnored(c) == FALSE

\* clt.go:252: c.ForwardPort != nil
HasForwardPort(c) == c.ForwardPort # NoPort

\* clt.go:252-254
JoinPreconditions ==
    /\ pc = "join"
    /\ IF HasForwardPort(conf)
       THEN JoinReturn("config")
       ELSE pc' = "get_details" /\ err' = err
    /\ UNCHANGED <<conf, Endpoint, wire, join, geo>>
    /\ UNCHANGED broadcastVars /\ UNCHANGED <<lib, holster, agent>>

\* clt.go:259-266: APIClient.GetSessionDetails, then the proxy's host
GetSessionDetails ==
    /\ pc = "get_details"
    /\ \E d \in DetailsResponses :
         /\ Send("GET", GetSessionDetailsPath(join.sid), NoUsers, "")
         /\ IF GetSessionDetailsError(d.resp) # ""
            THEN JoinReturn(GetSessionDetailsError(d.resp)) /\ join' = join
            ELSE /\ join' = [join EXCEPT !.session =
                               [d.session EXCEPT !.ProxyHostPort =
                                   ReplaceHost(d.session.ProxyHostPort, Endpoint.Host)]]
                 /\ pc' = "find_user"
                 /\ err' = err
    /\ UNCHANGED <<conf, Endpoint, geo>>
    /\ UNCHANGED broadcastVars /\ UNCHANGED <<lib, holster, agent>>

\* clt.go:269-272: findUserFor
FindUser ==
    /\ pc = "find_user"
    /\ LET fp == IF conf.IdentityFile = <<>> THEN "" ELSE conf.IdentityFile[1] IN
       \E found \in findUserFor(join.session, fp, join.homeKeys) :
         /\ join' = [join EXCEPT !.user = found.user, !.read = found.read]
         /\ IF found.err # "" THEN JoinReturn(found.err)
            ELSE pc' = "join_client" /\ err' = err
    /\ UNCHANGED <<conf, Endpoint, wire, geo>>
    /\ UNCHANGED broadcastVars /\ UNCHANGED <<lib, holster, agent>>

\* clt.go:275-311: the port invite, the node's address, client.NewClient,
\* the proxy's certificate authorities and the user's key
NewJoinClient ==
    /\ pc = "join_client"
    /\ conf' = IF join.session.ForwardedPort # NoPort
               THEN [conf EXCEPT !.ForwardPorts = "invite"] ELSE conf
    /\ IF GetNodeHostPortError(join.session) # ""
       THEN JoinReturn("node_host_port") /\ join' = join
       ELSE \E built \in {"ok", "new_client", "trusted_ca"} :
              /\ join' = [join EXCEPT !.tc = IF built = "new_client" THEN "none" ELSE "built"]
              /\ IF built # "ok" THEN JoinReturn(built)
                 ELSE pc' = "connect" /\ err' = err
    /\ UNCHANGED <<Endpoint, wire, geo>>
    /\ UNCHANGED broadcastVars /\ UNCHANGED <<lib, holster, agent>>

\* clt.go:313-320: one pass of the loop around tc.Join
JoinAttempt ==
    /\ pc = "connect"
    /\ join.i < joinAttempts
    /\ \E e \in JoinErrors :
         IF e = ""
         THEN /\ join' = [join EXCEPT !.tried = Append(@, e), !.tc = "joined"]
              /\ JoinReturn(e)
         ELSE /\ join' = [join EXCEPT !.tried = Append(@, e), !.i = @ + 1]
              /\ IF join.i + 1 < joinAttempts
                 THEN pc' = pc /\ err' = err
                 ELSE JoinReturn(e)
    /\ UNCHANGED <<conf, Endpoint, wire, geo>>
    /\ UNCHANGED broadcastVars /\ UNCHANGED <<lib, holster, agent>>

NextJoin ==
    \/ AppJoin
    \/ JoinPreconditions
    \/ GetSessionDetails
    \/ FindUser
    \/ NewJoinClient
    \/ JoinAttempt

SpecJoin == InitJoin /\ [][NextJoin]_vars

\* main: the process runs one command, a broadcast (no argument) or a join
InitApp == Init \/ InitJoin

NextApp == Next \/ NextJoin

SpecApp == InitApp /\ [][NextApp]_vars

(***************************************************************************)
(* Package geo on its own: an id is shown for an endpoint, then decoded    *)
(***************************************************************************)

HexDigits == {"0", "1", "2", "3", "4", "5", "6", "7", "8", "9", "a", "b", "c", "d", "e", "f"}

\* The endpoints an id is shown for: the hosts of the table, with and
\* without a port, and hosts outside the table.
GeoEndpoints ==
    { HostPort(Endpoints[i].Hostname, port) : i \in 1..Len(Endpoints), port \in {"", "443"} }
    \cup { HostPort("example.com", ""), HostPort("lab.example.org", "8443") }

\* The ids: every string of two hex digits, ids of 40 hex digits, and
\* strings that are not hex.
GeoSessionIDs ==
    { a \o b : a \in HexDigits, b \in HexDigits }
    \cup WebSessionIDs
    \cup { "e0a1b2c3d4e5f60718293a4b5c6d7e8f90123456" }
    \cup { "", "e", "eu", "as", "eu555", "as1111", "asia", "5555", "use5", "zz9" }

InitGeo ==
    /\ pc = "geo"
    /\ conf = Config(HostPort(DefaultServerHost, ""), "nil", NoPort, <<>>)
    /\ Endpoint = conf.APIEndpointURL
    /\ wire = <<>>
    /\ err = "-"
    /\ BroadcastIdle
    /\ join = NoJoin
    /\ lib = NoLib
    /\ holster = NoHolster
    /\ agent = NoAgent
    /\ \E h \in GeoEndpoints, id \in GeoSessionIDs :
         geo = [op |-> "start", endpoint |-> h, sid |-> id, shown |-> "",
                decoded |-> <<"", "">>, geobalanced |-> FALSE]

\* clt.go:155: the id shown is the prefix of the endpoint and the id
ShowSessionID ==
    /\ geo.op = "start"
    /\ geo' = [geo EXCEPT !.op = "shown",
                          !.shown = SesionPrefixFor(geo.endpoint) \o geo.sid]
    /\ UNCHANGED <<pc, conf, Endpoint, wire, err, join>>
    /\ UNCHANGED broadcastVars /\ UNCHANGED <<lib, holster, agent>>

\* part_022:160 and geo.go:98-101: the shown id is decoded
DecodeSessionID ==
    /\ geo.op = "shown"
    /\ geo' = [geo EXCEPT !.op = "decoded",
                          !.decoded = EndpointForSession(geo.shown),
                          !.geobalanced = IsGeobalancedSession(geo.shown)]
    /\ UNCHANGED <<pc, conf, Endpoint, wire, err, join>>
    /\ UNCHANGED broadcastVars /\ UNCHANGED <<lib, holster, agent>>

NextGeo ==
    \/ ShowSessionID
    \/ DecodeSessionID

SpecGeo == InitGeo /\ [][NextGeo]_vars

(***************************************************************************)
(* geo.FindFastestEndpoint: one ping goroutine for each endpoint, the       *)
(* unbuffered channel `responded`, the 5-second timer and the select        *)
(***************************************************************************)

\* geo.DefaultEndpoint
DefaultEndpoint == Endpoints[1]

\* What http.Get(http://<host>/ping) can return
PingResponses == TransportErrors \cup Refusals \cup {Response("", StatusOK, "", "pong")}

\* A ping that sends its endpoint whatever the status of the answer.
PingRespondedAnyStatus(resp) == resp.err = ""

\* geo.go:42-49: the goroutine sends its endpoint only for an answer with status 200
PingResponded(resp) == resp.err = "" /\ resp.StatusCode = StatusOK

\* geo.go:34-57: the channel is made, the goroutines are started, the timer
\* is armed and FindFastestEndpoint waits in its select.
InitFind ==
    /\ pc = "find"
    /\ conf = Config(HostPort(DefaultServerHost, ""), "nil", NoPort, <<>>)
    /\ Endpoint = conf.APIEndpointURL
    /\ wire = <<>>
    /\ err = "-"
    /\ BroadcastIdle
    /\ join = NoJoin
    /\ lib = NoLib
    /\ holster = NoHolster
    /\ agent = NoAgent
    /\ geo = [op |-> "select",
              ping |-> [i \in 1..Len(Endpoints) |-> "get"],
              got |-> [i \in 1..Len(Endpoints) |-> NoResponse],
              timer |-> "armed", via |-> "", result |-> DefaultEndpoint]

\* geo.go:38-50: the goroutine of endpoint i gets its answer. The channel has
\* no buffer: the send is taken at once by a FindFastestEndpoint that waits
\* in its select (the deferred timeout.Stop runs as it returns), and blocks
\* for ever once the function has returned.
Ping(i) ==
    /\ geo.op \in {"select", "returned"}
    /\ geo.ping[i] = "get"
    /\ \E resp \in PingResponses :
         IF ~PingResponded(resp)
         THEN geo' = [geo EXCEPT !.ping[i] = "returned", !.got[i] = resp]
         ELSE IF geo.op = "select"
         THEN geo' = [geo EXCEPT !.ping[i] = "sent", !.got[i] = resp, !.op = "returned",
                                 !.timer = "stopped", !.via = "responded",
                                 !.result = Endpoints[i]]
         ELSE geo' = [geo EXCEPT !.ping[i] = "blocked", !.got[i] = resp]
    /\ UNCHANGED <<pc, conf, Endpoint, wire, err, join>>
    /\ UNCHANGED broadcastVars /\ UNCHANGED <<lib, holster, agent>>

\* geo.go:54 and 61-64: the timer fires while FindFastestEndpoint is in its
\* select, which returns the default endpoint.
Timeout ==
    /\ geo.op = "select"
    /\ geo.timer = "armed"
    /\ geo' = [geo EXCEPT !.timer = "fired", !.op = "returned",
                          !.via = "timeout", !.result = DefaultEndpoint]
    /\ UNCHANGED <<pc, conf, Endpoint, wire, err, join>>
    /\ UNCHANGED broadcastVars /\ UNCHANGED <<lib, holster, agent>>

NextFind ==
    \/ \E i \in 1..Len(Endpoints) : Ping(i)
    \/ Timeout

SpecFind == InitFind /\ [][NextFind]_vars

(***************************************************************************)
(* lib.ParseForwardAddr, on the value of the -f flag as it is written       *)
(***************************************************************************)

\* The places of the character c in str, counted from 1
Indexes(str, c) == {i \in 1..Len(str) : SubSeq(str, i, i) = c}

\* net/url getscheme (go 1.9, the compiler of the Dockerfile): the loop
\* returns at the first colon, or at the first character a scheme cannot
\* hold; a digit, "+", "-" and "." cannot begin a scheme.
getscheme(rawurl) ==
    LET Letters == {"a", "b", "c", "d", "e", "f", "g", "h", "i", "j", "k", "l", "m",
                    "n", "o", "p", "q", "r", "s", "t", "u", "v", "w", "x", "y", "z"}
        Others == {"0", "1", "2", "3", "4", "5", "6", "7", "8", "9", "+", "-", "."}
        returns == {i \in 1..Len(rawurl) :
                      LET c == SubSeq(rawurl, i, i) IN
                      c \notin Letters /\ (i = 1 \/ c \notin Others)}
        i == CHOOSE k \in returns : \A j \in returns : k <= j
    IN IF returns = {} \/ SubSeq(rawurl, i, i) # ":"
       THEN [scheme |-> "", rest |-> rawurl, err |-> ""]
       ELSE IF i = 1 THEN [scheme |-> "", rest |-> "", err |-> "missing protocol scheme"]
       ELSE [scheme |-> SubSeq(rawurl, 1, i - 1),
             rest |-> SubSeq(rawurl, i + 1, Len(rawurl)), err |-> ""]

\* net/url Parse (go 1.9) on a string in lower case without "?", "#" and
\* "@": the scheme and the host it finds. A string with no scheme whose first
\* path segment holds a colon is refused.
Parse(rawurl) ==
    LET s == getscheme(rawurl)
        rest == s.rest
        colons == Indexes(rest, ":")
        slashes == Indexes(rest, "/")
        after == SubSeq(rest, 3, Len(rest))
        cuts == Indexes(after, "/")
        authority == IF cuts = {} THEN after
                     ELSE SubSeq(after, 1, (CHOOSE k \in cuts : \A j \in cuts : k <= j) - 1)
    IN IF s.err # "" THEN [err |-> s.err, Scheme |-> "", Host |-> ""]
       ELSE IF ~HasPrefix(rest, "/") /\ s.scheme # ""
       THEN [err |-> "", Scheme |-> s.scheme, Host |-> ""]
       ELSE IF /\ ~HasPrefix(rest, "/")
               /\ \E c \in colons : \A sl \in slashes : c < sl
       THEN [err |-> "first path segment in URL cannot contain colon",
             Scheme |-> "", Host |-> ""]
       ELSE IF HasPrefix(rest, "//") /\ (s.scheme # "" \/ ~HasPrefix(rest, "///"))
       THEN [err |-> "", Scheme |-> s.scheme, Host |-> authority]
       ELSE [err |-> "", Scheme |-> s.scheme, Host |-> ""]

\* A non-empty string of decimal digits
IsDigits(str) ==
    Len(str) > 0 /\ \A i \in 1..Len(str) : \E d \in 0..9 : SubSeq(str, i, i) = ToString(d)

\* The number a string of decimal digits writes
RECURSIVE DigitsValue(_)
DigitsValue(str) ==
    IF str = "" THEN 0
    ELSE 10 * DigitsValue(SubSeq(str, 1, Len(str) - 1))
         + (CHOOSE d \in 0..9 : ToString(d) = SubSeq(str, Len(str), Len(str)))

\* strconv.Atoi, on numbers that fit an int: an optional sign and digits
Atoi(str) ==
    LET signed == Len(str) > 0 /\ SubSeq(str, 1, 1) \in {"+", "-"}
        digits == IF signed THEN SubSeq(str, 2, Len(str)) ELSE str
    IN IF ~IsDigits(digits) THEN [err |-> "invalid syntax", n |-> 0]
       ELSE [err |-> "",
             n |-> IF SubSeq(str, 1, 1) = "-" THEN 0 - DigitsValue(digits)
                                              ELSE DigitsValue(digits)]

\* net.SplitHostPort on a string without brackets: it splits at the last
\* colon, and the host must hold no other.
SplitHostPortString(hostport) ==
    LET colons == Indexes(hostport, ":")
        i == CHOOSE k \in colons : \A j \in colons : j <= k
    IN IF colons = {} THEN [host |-> "", port |-> "", err |-> "missing port in address"]
       ELSE IF Cardinality(colons) > 1
       THEN [host |-> "", port |-> "", err |-> "too many colons in address"]
       ELSE [host |-> SubSeq(hostport, 1, i - 1),
             port |-> SubSeq(hostport, i + 1, Len(hostport)), err |-> ""]

\* The result of ParseForwardAddr: the ForwardedPort, or nil and an error
Forwarded(h, n) == [err |-> "", DestHost |-> h, DestPort |-> n]
NotForwarded(e) == [err |-> e, DestHost |-> "", DestPort |-> 0]

ParseForwardAddr(spec) ==
    LET u == Parse(spec)
        n == Atoi(spec)
        hp == SplitHostPortString(spec)
    IN IF u.err # "" THEN NotForwarded(u.err)
       ELSE IF u.Host # "" /\ u.Scheme = "http" THEN Forwarded(u.Host, 80)
       ELSE IF u.Host # "" /\ u.Scheme = "https" THEN Forwarded(u.Host, 443)
       ELSE IF n.err = "" THEN Forwarded("localhost", n.n)
       ELSE IF hp.err # "" THEN NotForwarded(hp.err)
       ELSE IF Atoi(hp.port).err # "" THEN NotForwarded(Atoi(hp.port).err)
       ELSE Forwarded(hp.host, Atoi(hp.port).n)

\* The values of -f: words and addresses with what may follow them, URLs,
\* and numbers.
ForwardSpecs ==
    ({ h \o t : h \in {"", "localhost", "example.com", "10.0.0.1", "foo"},
                t \in {"", ":22", ":5000", ":", ":x", ":22:33"} } \ {""})
    \cup { sc \o h \o t : sc \in {"http://", "https://", "ftp://"},
                          h \in {"", "localhost", "example.com", "10.0.0.1"},
                          t \in {"", ":8080", "/path"} }
    \cup { "5000", "8888", "0", "+80", "-1" }

\* NewApp has read the flags: -f was given a value
InitForward ==
    /\ pc = "new_app"
    /\ conf = Config(HostPort(DefaultServerHost, ""), "nil", NoPort, <<>>)
    /\ Endpoint = conf.APIEndpointURL
    /\ wire = <<>>
    /\ err = "-"
    /\ BroadcastIdle
    /\ join = NoJoin
    /\ geo = NoGeo
    /\ holster = NoHolster
    /\ agent = NoAgent
    /\ \E spec \in ForwardSpecs :
         lib = [op |-> "flag", spec |-> spec, p |-> NotForwarded("")]

\* part_022:128-133: NewApp parses the value of -f into the configuration
ParseForward ==
    /\ pc = "new_app"
    /\ lib.op = "flag"
    /\ LET p == ParseForwardAddr(lib.spec) IN
       /\ lib' = [lib EXCEPT !.op = "parsed", !.p = p]
       /\ IF p.err # ""
          THEN pc' = "done" /\ err' = "forward_spec" /\ conf' = conf
          ELSE /\ pc' = "configured"
               /\ err' = err
               /\ conf' = [conf EXCEPT !.ForwardPort =
                              [DestHost |-> p.DestHost, DestPort |-> p.DestPort]]
    /\ UNCHANGED <<Endpoint, wire, join, geo, holster, agent>>
    /\ UNCHANGED broadcastVars

SpecForward == InitForward /\ [][ParseForward]_vars

(***************************************************************************)
(* holster.TTLMap (vendored): a map bounded by a capacity, whose entries    *)
(* expire                                                                   *)
(***************************************************************************)

\* The clock stops here, and no counter is incremented beyond MaxCount
MaxNow == 2
MaxCount == 2

TTLKeys == {"a", "b", "c"}

\* The capacities given to NewTTLMap, and the ttlSeconds given to Set and Increment
TTLCapacities == {0 - 1, 0, 1, 2}
TTLSeconds == {0, 1, 2}

\* An empty map of elements
NoElements == [k \in {} |-> 0]

\* TTLMap.toEpochSeconds
toEpochSeconds(m, ttlSeconds) ==
    IF ttlSeconds <= 0 THEN [err |-> "ttl", t |-> 0]
    ELSE [err |-> "", t |-> m.now + ttlSeconds]

\* TTLMap.freeSpace(1), that is RemoveExpired(1) and then RemoveLastUsed(1 - removed):
\* both take the root of the heap of expiry times, an entry of the least
\* priority; RemoveExpired takes it only when it has expired. The result
\* is the elements left, how the room was made and the key that went.
freeSpace(m) ==
    LET els == m.elements
        roots == {k \in DOMAIN els : \A j \in DOMAIN els : els[k].Priority <= els[j].Priority}
    IN IF DOMAIN els = {} THEN {[elements |-> els, freed |-> "nothing", evicted |-> ""]}
       ELSE {[elements |-> [j \in DOMAIN els \ {k} |-> els[j]],
              freed |-> IF els[k].Priority <= m.now THEN "expired" ELSE "last_used",
              evicted |-> k] : k \in roots}

\* TTLMap.set: the outcomes of writing key
set(m, key, value, expiryTime) ==
    LET el == [value |-> value, Priority |-> expiryTime] IN
    IF key \in DOMAIN m.elements
    THEN {[elements |-> [m.elements EXCEPT ![key] = el], freed |-> "no", evicted |-> ""]}
    ELSE LET room == IF Cardinality(DOMAIN m.elements) >= m.capacity
                     THEN freeSpace(m)
                     ELSE {[elements |-> m.elements, freed |-> "no", evicted |-> ""]}
         IN {[r EXCEPT !.elements = [j \in DOMAIN r.elements \cup {key} |->
                                        IF j = key THEN el ELSE r.elements[j]]] : r \in room}

\* NewTTLMap(capacity) with a clock the test advances
NewTTLMap(capacity) ==
    [kind |-> "ttlmap", given |-> capacity,
     capacity |-> IF capacity <= 0 THEN 0 ELSE capacity,
     elements |-> NoElements, now |-> 0,
     last |-> [op |-> "new", key |-> "", err |-> "", before |-> NoElements,
               freed |-> "no", evicted |-> ""]]

InitTTLMap ==
    /\ pc = "holster"
    /\ conf = Config(HostPort(DefaultServerHost, ""), "nil", NoPort, <<>>)
    /\ Endpoint = conf.APIEndpointURL
    /\ wire = <<>>
    /\ err = "-"
    /\ BroadcastIdle
    /\ join = NoJoin
    /\ geo = NoGeo
    /\ lib = NoLib
    /\ \E capacity \in TTLCapacities : holster = NewTTLMap(capacity)
    /\ agent = NoAgent

\* TTLMap.Set(key, 0, ttlSeconds)
TTLSet ==
    /\ holster.kind = "ttlmap"
    /\ \E key \in TTLKeys, ttlSeconds \in TTLSeconds :
         LET expiryTime == toEpochSeconds(holster, ttlSeconds) IN
         IF expiryTime.err # ""
         THEN holster' = [holster EXCEPT !.last =
                             [op |-> "Set", key |-> key, err |-> expiryTime.err,
                              before |-> holster.elements, freed |-> "no", evicted |-> ""]]
         ELSE \E r \in set(holster, key, 0, expiryTime.t) :
                holster' = [holster EXCEPT !.elements = r.elements, !.last =
                               [op |-> "Set", key |-> key, err |-> "",
                                before |-> holster.elements, freed |-> r.freed,
                                evicted |-> r.evicted]]
    /\ UNCHANGED <<pc, conf, Endpoint, wire, err, join, geo, lib, agent>>
    /\ UNCHANGED broadcastVars

\* TTLMap.Increment(key, 1, ttlSeconds)
TTLIncrement ==
    /\ holster.kind = "ttlmap"
    /\ \E key \in TTLKeys, ttlSeconds \in TTLSeconds :
         LET expiryTime == toEpochSeconds(holster, ttlSeconds)
             found == key \in DOMAIN holster.elements
             expired == found /\ holster.elements[key].Priority <= holster.now
             value == IF ~found \/ expired THEN 1 ELSE holster.elements[key].value + 1
         IN /\ value <= MaxCount
            /\ IF expiryTime.err # ""
               THEN holster' = [holster EXCEPT !.last =
                                   [op |-> "Increment", key |-> key, err |-> expiryTime.err,
                                    before |-> holster.elements, freed |-> "no",
                                    evicted |-> ""]]
               ELSE \E r \in set(holster, key, value, expiryTime.t) :
                      holster' = [holster EXCEPT !.elements = r.elements, !.last =
                                     [op |-> "Increment", key |-> key, err |-> "",
                                      before |-> holster.elements, freed |-> r.freed,
                                      evicted |-> r.evicted]]
    /\ UNCHANGED <<pc, conf, Endpoint, wire, err, join, geo, lib, agent>>
    /\ UNCHANGED broadcastVars

\* A second goes by on the map's clock
TTLTick ==
    /\ holster.kind = "ttlmap"
    /\ holster.now < MaxNow
    /\ holster' = [holster EXCEPT !.now = @ + 1]
    /\ UNCHANGED <<pc, conf, Endpoint, wire, err, join, geo, lib, agent>>
    /\ UNCHANGED broadcastVars

NextTTLMap ==
    \/ TTLSet
    \/ TTLIncrement
    \/ TTLTick

SpecTTLMap == InitTTLMap /\ [][NextTTLMap]_vars

(***************************************************************************)
(* holster.ExpireCache (vendored): callers Add, Get and Update a key while  *)
(* a goroutine of Each() processes it                                       *)
(***************************************************************************)

\* The records Add may allocate
MaxRecords == 2

\* No *expireRecord (a key the cache does not hold)
NoRecord == 0

\* No entry was deleted
NoRemoval == [rec |-> NoRecord, Value |-> "", ExpireAt |-> 0, now |-> 0, passed |-> FALSE]

\* NewExpireCache(ttl) with a ttl of one tick. The cache holds one pointer
\* for the key; `records` is the heap the pointers point into; `each` is the
\* goroutine FanOut runs for the key, with the pointer it has read.
NewExpireCache ==
    [kind |-> "expirecache", ttl |-> 1, now |-> 0, cache |-> NoRecord,
     records |-> <<>>, each |-> [pc |-> "idle", record |-> NoRecord],
     passed |-> {}, removed |-> NoRemoval]

InitExpireCache ==
    /\ pc = "holster"
    /\ conf = Config(HostPort(DefaultServerHost, ""), "nil", NoPort, <<>>)
    /\ Endpoint = conf.APIEndpointURL
    /\ wire = <<>>
    /\ err = "-"
    /\ BroadcastIdle
    /\ join = NoJoin
    /\ geo = NoGeo
    /\ lib = NoLib
    /\ holster = NewExpireCache
    /\ agent = NoAgent

\* ExpireCache.Add: a new record takes the key's place in the map
CacheAdd ==
    /\ holster.kind = "expirecache"
    /\ Len(holster.records) < MaxRecords
    /\ \E value \in {"v1", "v2"} :
         holster' = [holster EXCEPT
                        !.records = Append(@, [Value |-> value,
                                               ExpireAt |-> holster.now + holster.ttl]),
                        !.cache = Len(holster.records) + 1]
    /\ UNCHANGED <<pc, conf, Endpoint, wire, err, join, geo, lib, agent>>
    /\ UNCHANGED broadcastVars

\* ExpireCache.Get, a hit: the expiry of the record in the map is reset
CacheGet ==
    /\ holster.kind = "expirecache"
    /\ holster.cache # NoRecord
    /\ holster' = [holster EXCEPT
                      !.records[holster.cache].ExpireAt = holster.now + holster.ttl]
    /\ UNCHANGED <<pc, conf, Endpoint, wire, err, join, geo, lib, agent>>
    /\ UNCHANGED broadcastVars

\* ExpireCache.Update: the value of the record in the map changes, its expiry stays
CacheUpdate ==
    /\ holster.kind = "expirecache"
    /\ holster.cache # NoRecord
    /\ holster' = [holster EXCEPT !.records[holster.cache].Value = "updated"]
    /\ UNCHANGED <<pc, conf, Endpoint, wire, err, join, geo, lib, agent>>
    /\ UNCHANGED broadcastVars

\* ExpireCache.Each, part_005:142-149: Keys() finds the key, FanOut runs the
\* goroutine, which reads the key's record under the mutex
EachLookup ==
    /\ holster.kind = "expirecache"
    /\ holster.each.pc = "idle"
    /\ holster.cache # NoRecord
    /\ holster' = [holster EXCEPT !.each = [pc |-> "callback", record |-> holster.cache],
                                  !.removed = NoRemoval]
    /\ UNCHANGED <<pc, conf, Endpoint, wire, err, join, geo, lib, agent>>
    /\ UNCHANGED broadcastVars

\* part_005:155-158: callBack(key, record.Value), outside the mutex; the
\* goroutine ends when the callback fails
EachCallback ==
    /\ holster.kind = "expirecache"
    /\ holster.each.pc = "callback"
    /\ \E failed \in BOOLEAN :
         holster' = [holster EXCEPT
                        !.passed = @ \cup {<<holster.each.record,
                                             holster.records[holster.each.record].Value>>},
                        !.each = IF failed THEN [pc |-> "idle", record |-> NoRecord]
                                 ELSE [@ EXCEPT !.pc = "check"]]
    /\ UNCHANGED <<pc, conf, Endpoint, wire, err, join, geo, lib, agent>>
    /\ UNCHANGED broadcastVars

\* part_005:160-165: under the mutex again, the key is deleted from the map
\* when the record read before the callback has expired
EachCheck ==
    /\ holster.kind = "expirecache"
    /\ holster.each.pc = "check"
    /\ LET record == holster.records[holster.each.record]
           held == holster.cache
       IN IF record.ExpireAt < holster.now
          THEN holster' = [holster EXCEPT
                  !.cache = NoRecord,
                  !.each = [pc |-> "idle", record |-> NoRecord],
                  !.removed = IF held = NoRecord THEN NoRemoval
                              ELSE [rec |-> held, Value |-> holster.records[held].Value,
                                    ExpireAt |-> holster.records[held].ExpireAt,
                                    now |-> holster.now,
                                    passed |-> <<held, holster.records[held].Value>>
                                                  \in holster.passed]]
          ELSE holster' = [holster EXCEPT !.each = [pc |-> "idle", record |-> NoRecord]]
    /\ UNCHANGED <<pc, conf, Endpoint, wire, err, join, geo, lib, agent>>
    /\ UNCHANGED broadcastVars

\* time.Now() moves on
CacheTick ==
    /\ holster.kind = "expirecache"
    /\ holster.now < MaxNow
    /\ holster' = [holster EXCEPT !.now = @ + 1]
    /\ UNCHANGED <<pc, conf, Endpoint, wire, err, join, geo, lib, agent>>
    /\ UNCHANGED broadcastVars

NextExpireCache ==
    \/ CacheAdd
    \/ CacheGet
    \/ CacheUpdate
    \/ EachLookup
    \/ EachCallback
    \/ EachCheck
    \/ CacheTick

SpecExpireCache == InitExpireCache /\ [][NextExpireCache]_vars

(***************************************************************************)
(* reversetunnel.Agent: Start, the heartbeat goroutines it spawns, their    *)
(* tickers and Close, with the periods NewApp configures                    *)
(***************************************************************************)

\* clt.SyncRefreshInterval, time.Second, in milliseconds
SyncRefreshInterval == 1000

\* part_022:102-104: the periods NewApp stores in teleport/lib/defaults
SessionRefreshPeriod == SyncRefreshInterval
ReverseTunnelAgentHeartbeatPeriod == SyncRefreshInterval * 2
ServerHeartbeatTTL == SyncRefreshInterval * 2

\* agent.go:184-186: the idle timeout of a proxied access-point connection
IdleTimeout == ReverseTunnelAgentHeartbeatPeriod * 10

\* The heartbeat goroutines one agent is followed through
MaxHeartbeats == 3

\* What a.connect() and conn.OpenChannel(chanHeartbeat) can come to
ConnectOutcomes == {"ok", "dial_failed", "no_channel"}

\* NewAgent, and `go agent.Start()` of AgentPool.syncAgents not yet run
NewAgent ==
    [kind |-> "agent",
     period |-> ReverseTunnelAgentHeartbeatPeriod,
     idle |-> IdleTimeout,
     closed |-> FALSE,
     task |-> [t \in 1..MaxHeartbeats |-> "none"],
     conn |-> [t \in 1..MaxHeartbeats |-> "none"],
     cause |-> [t \in 1..MaxHeartbeats |-> ""],
     tick |-> [t \in 1..MaxHeartbeats |-> FALSE],
     dialed |-> <<>>]

InitAgent ==
    /\ pc = "agent"
    /\ conf = Config(HostPort(DefaultServerHost, ""), "nil", NoPort, <<>>)
    /\ Endpoint = conf.APIEndpointURL
    /\ wire = <<>>
    /\ err = "-"
    /\ BroadcastIdle
    /\ join = NoJoin
    /\ geo = NoGeo
    /\ lib = NoLib
    /\ holster = NoHolster
    /\ agent = NewAgent

\* Agent.Start (agent.go:106-115) and the head of the goroutine it spawns
\* (agent.go:308-327): the dial, which does not look at broadcastClose and
\* is recorded with the closed flag of its moment, then heartbeat t with
\* its ticker: in the loop with the first ping sent, or out of
\* heartbeatLoop with an error when there is no connection or no channel.
Started(a, t, outcome) ==
    [a EXCEPT !.dialed = Append(@, a.closed),
              !.tick[t] = FALSE,
              !.task[t] = IF outcome = "ok" THEN "loop" ELSE "failed",
              !.conn[t] = IF outcome = "ok" THEN "open"
                          ELSE IF outcome = "dial_failed" THEN "nil" ELSE "closed",
              !.cause[t] = IF outcome = "ok" THEN "" ELSE outcome]

\* agentpool.go:155: the Start of the pool's goroutine
AgentStart ==
    /\ agent.kind = "agent"
    /\ agent.dialed = <<>>
    /\ \E outcome \in ConnectOutcomes : agent' = Started(agent, 1, outcome)
    /\ UNCHANGED <<pc, conf, Endpoint, wire, err, join, geo, lib, holster>>
    /\ UNCHANGED broadcastVars

\* Agent.Close (agent.go:101-103), called by the pool
AgentClose ==
    /\ agent.kind = "agent"
    /\ ~agent.closed
    /\ agent' = [agent EXCEPT !.closed = TRUE]
    /\ UNCHANGED <<pc, conf, Endpoint, wire, err, join, geo, lib, holster>>
    /\ UNCHANGED broadcastVars

\* The ticker of heartbeat t fires: its channel holds one tick
Tick(t) ==
    /\ agent.kind = "agent"
    /\ agent.task[t] \in {"loop", "failed"}
    /\ ~agent.tick[t]
    /\ agent' = [agent EXCEPT !.tick[t] = TRUE]
    /\ UNCHANGED <<pc, conf, Endpoint, wire, err, join, geo, lib, holster>>
    /\ UNCHANGED broadcastVars

\* agent.go:334-341: the select takes the tick and pings
HeartbeatPing(t) ==
    /\ agent.kind = "agent"
    /\ agent.task[t] = "loop"
    /\ agent.tick[t]
    /\ \E ok \in BOOLEAN :
         agent' = IF ok THEN [agent EXCEPT !.tick[t] = FALSE]
                  ELSE [agent EXCEPT !.tick[t] = FALSE, !.task[t] = "failed",
                                     !.conn[t] = "closed", !.cause[t] = "ping"]
    /\ UNCHANGED <<pc, conf, Endpoint, wire, err, join, geo, lib, holster>>
    /\ UNCHANGED broadcastVars

\* agent.go:343-346: the heartbeat channel is closed by the other side
HeartbeatChannelClosed(t) ==
    /\ agent.kind = "agent"
    /\ agent.task[t] = "loop"
    /\ agent' = [agent EXCEPT !.task[t] = "failed", !.conn[t] = "closed",
                              !.cause[t] = "connection_closed"]
    /\ UNCHANGED <<pc, conf, Endpoint, wire, err, join, geo, lib, holster>>
    /\ UNCHANGED broadcastVars

\* agent.go:331-333: the select takes broadcastClose, heartbeatLoop returns
\* nil and the goroutine ends
HeartbeatSeesClose(t) ==
    /\ agent.kind = "agent"
    /\ agent.task[t] = "loop"
    /\ agent.closed
    /\ agent' = [agent EXCEPT !.task[t] = "exited", !.conn[t] = "closed"]
    /\ UNCHANGED <<pc, conf, Endpoint, wire, err, join, geo, lib, holster>>
    /\ UNCHANGED broadcastVars

\* agent.go:385-393 after a failed heartbeatLoop: the select takes the tick
\* (whether broadcastClose is closed or not, when both are ready) and
\* a.Start() dials again and spawns the next heartbeat
Reconnect(t) ==
    /\ agent.kind = "agent"
    /\ agent.task[t] = "failed"
    /\ agent.tick[t]
    /\ t < MaxHeartbeats
    /\ \E outcome \in ConnectOutcomes :
         agent' = Started([agent EXCEPT !.task[t] = "exited", !.tick[t] = FALSE],
                          t + 1, outcome)
    /\ UNCHANGED <<pc, conf, Endpoint, wire, err, join, geo, lib, holster>>
    /\ UNCHANGED broadcastVars

\* agent.go:385-389 after a failed heartbeatLoop: the select takes broadcastClose
FailedSeesClose(t) ==
    /\ agent.kind = "agent"
    /\ agent.task[t] = "failed"
    /\ agent.closed
    /\ agent' = [agent EXCEPT !.task[t] = "exited"]
    /\ UNCHANGED <<pc, conf, Endpoint, wire, err, join, geo, lib, holster>>
    /\ UNCHANGED broadcastVars

NextAgent ==
    \/ AgentStart
    \/ AgentClose
    \/ \E t \in 1..MaxHeartbeats :
         \/ Tick(t)
         \/ HeartbeatPing(t)
         \/ HeartbeatChannelClosed(t)
         \/ HeartbeatSeesClose(t)
         \/ Reconnect(t)
         \/ FailedSeesClose(t)

SpecAgent == InitAgent /\ [][NextAgent]_vars

(***************************************************************************)
(* What the broker has been sent                                           *)
(***************************************************************************)

IsVersion(r) == r.method = "GET" /\ r.path = "/api/version"
IsNewSession(r) == r.method = "POST" /\ r.path = "/api/sessions"
IsPublish(r) == r.method = "POST" /\ r.path # "/api/sessions"
IsStats(r) == r.method = "GET" /\ r.path # "/api/version"

\* The place of a request in check_version, request_new_session,
\* publish_session_id, get_session_stats.
Rank(r) ==
    IF IsVersion(r) THEN 1 ELSE IF IsNewSession(r) THEN 2 ELSE IF IsPublish(r) THEN 3 ELSE 4

\* The places in the history of the requests of each kind.
SentVersion == {i \in 1..Len(wire) : IsVersion(wire[i])}
SentNewSession == {i \in 1..Len(wire) : IsNewSession(wire[i])}
SentPublish == {i \in 1..Len(wire) : IsPublish(wire[i])}
SentStats == {i \in 1..Len(wire) : IsStats(wire[i])}

HasPrivateKey(users) == \E u \in DOMAIN users : users[u].Key.Priv # NoKey

NamedBroadcast == conf.IdentityFile # <<>>

(***************************************************************************)
(* Claims                                                                  *)
(***************************************************************************)

\* C1: in a broadcast with a named identity no request sent to the broker
\* carries a private key of any user, and the site's users hold a private
\* key (the broadcaster's own) only once RequestNewSession has returned
\* its session.
C1_NamedKeysStayHome ==
    NamedBroadcast =>
        /\ \A i \in 1..Len(wire) : ~HasPrivateKey(wire[i].users)
        /\ HasPrivateKey(localUsers) =>
              /\ sess # NoSession
              /\ SentNewSession # {}
              /\ pc \notin {"new_instance", "request_session"}

C1_Witness ==
    /\ NamedBroadcast
    /\ HasPrivateKey(localUsers)
    /\ SentNewSession # {}
    /\ SentPublish # {}

\* C2: the users an identity announces carry a private key only if the
\* identity is anonymous; those of a named identity all have an empty
\* private key and a non-empty public key. Checked for the identities the
\* broadcaster mints and for the users it hands to the local site before
\* the broker is asked.
C2_AnnounceStripsNamedKeys ==
    /\ \A id \in {me, them} :
         LET users == AnnounceUsers(id) IN
         /\ HasPrivateKey(users) => id.Anonymous
         /\ ~id.Anonymous =>
               \A u \in DOMAIN users :
                  users[u].Key.Priv = NoKey /\ users[u].Key.Pub # NoKey
    /\ pc = "request_session" =>
         /\ HasPrivateKey(localUsers) => them.Anonymous
         /\ ~them.Anonymous =>
               \A u \in DOMAIN localUsers :
                  localUsers[u].Key.Priv = NoKey /\ localUsers[u].Key.Pub # NoKey

C2_Witness ==
    /\ pc = "request_session"
    /\ ~them.Anonymous
    /\ \E i \in 1..Len(them.Logins) : them.Logins[i].Key.Priv # NoKey
    /\ DOMAIN localUsers # {}

\* C3: the broker requests of a broadcast come in the order check_version,
\* request_new_session, publish_session_id, get_session_stats*: the
\* new-session request is sent only after CheckVersion got its 200 answer,
\* and a stats request only after the publish request.
C3_BrokerCallOrder ==
    /\ \A i, j \in 1..Len(wire) : i < j => Rank(wire[i]) <= Rank(wire[j])
    /\ Cardinality(SentNewSession) <= 1
    /\ SentNewSession # {} =>
          /\ SentVersion # {}
          /\ cvResp.err = "" /\ cvResp.StatusCode = StatusOK /\ cvResp.Body = "version"
    /\ SentPublish # {} => SentNewSession # {}
    /\ SentStats # {} => SentPublish # {}

C3_Witness ==
    /\ Cardinality(SentVersion) > 1
    /\ SentNewSession # {}
    /\ SentPublish # {}
    /\ Cardinality(SentStats) > 1

\* C4: at most one publish request is sent in a broadcast; it is sent once
\* the site has reported a non-empty session list, it carries the id of the
\* first session of that list, and after it the publisher polls no more,
\* whether the request succeeded or failed.
C4_PublishOnce ==
    /\ Cardinality(SentPublish) <= 1
    /\ \A i \in SentPublish :
          /\ sessions # <<>>
          /\ wire[i].body = Head(sessions)
          /\ pc # "publish_poll"
    /\ pc = "publish_poll" => SentPublish = {}

C4_Witness ==
    /\ Cardinality(SentPublish) = 1
    /\ emptyPolls > 0
    /\ Len(sessions) > 1
    /\ site = "stopped"
    /\ pc = "stats"

\* C5: after the publish request at most 10 stats probes are sent; the
\* first probe that reports a party ends the probing, and only then is the
\* session id shown; after 10 probes without a party the callback fails
\* with the tunnel error and the shell is closed.
C5_TunnelCheck ==
    /\ Cardinality(SentStats) <= 10
    /\ statsI <= Cardinality(SentStats)
    /\ shown # "" <=> probe = "found"
    /\ probe = "found" => pc # "stats" /\ statsI < 10
    /\ statsI >= 10 =>
          /\ err = "tunnel_not_established"
          /\ sshClient = "closed"
          /\ shown = ""
          /\ pc # "stats"

C5_Witness ==
    /\ statsI = 10
    /\ Cardinality(SentStats) = 10
    /\ err = "tunnel_not_established"

\* A second case of C5: the probing stopped at a party after fruitless probes.
C5_WitnessFound == probe = "found" /\ statsI > 0 /\ shown # ""

\* C6 as stated: the tunnel error is returned only after 10 stats polls
\* have each found no parties.
C6_OnlyAfterTenPolls ==
    err = "tunnel_not_established" => statsI >= 10

\* C6, amended: the tunnel error is returned only after a stats poll has
\* failed, or after 10 stats polls have each found no parties.
C6_AfterFailedOrTenPolls ==
    err = "tunnel_not_established" =>
        \/ probe = "failed" /\ SentStats # {}
        \/ probe = "empty" /\ statsI >= 10 /\ Cardinality(SentStats) >= 10

C6_Witness ==
    /\ err = "tunnel_not_established"
    /\ probe = "failed"
    /\ statsI < 10

\* C7 as stated: whenever StartBroadcast has returned, the local site is
\* not left created or running and its data directory is not left behind.
C7_EveryExitReleases ==
    pc = "done" => site \notin {"created", "running"} /\ dataDir # "exists"

C9_AtMostTwoRedirects ==
    /\ Cardinality(SentVersion) <= 3
    /\ cvI <= 3
    /\ (pc = "check_version" /\ cvI > 0) =>
          /\ cvResp.StatusCode = StatusTemporaryRedirect
          /\ Endpoint = ParseURL(cvResp.Location).url
          /\ Cardinality(SentVersion) = cvI
          /\ cvI <= 2
    /\ cvI = 3 =>
          /\ pc = "done"
          /\ err = "http"
          /\ Cardinality(SentVersion) = 3
    /\ (Cardinality(SentVersion) = 3 /\ cvResp.err = ""
          /\ cvResp.StatusCode = StatusTemporaryRedirect) =>
          /\ pc = "done"
          /\ err \in {"http", "invalid_redirect"}
          /\ (cvResp.Location # "" /\ ParseURL(cvResp.Location).err = "") => err = "http"

C9_Witness ==
    /\ cvI = 3
    /\ err = "http"
    /\ Cardinality(SentVersion) = 3

\* C10: after a 307 answer without a Location CheckVersion has failed, no
\* request follows the one so answered, and the endpoint is still the one
\* that request was sent to.
C10_RedirectWithoutLocation ==
    (cvResp.err = "" /\ cvResp.StatusCode = StatusTemporaryRedirect /\ cvResp.Location = "") =>
        /\ pc = "done"
        /\ err = "invalid_redirect"
        /\ IsVersion(wire[Len(wire)])
        /\ Endpoint.Host = wire[Len(wire)].host

C10_Witness ==
    /\ cvResp.err = ""
    /\ cvResp.StatusCode = StatusTemporaryRedirect
    /\ cvResp.Location = ""
    /\ cvI > 0
    /\ pc = "done"

(***************************************************************************)
(* Claims about the join command                                           *)
(***************************************************************************)

\* strings.HasSuffix
HasSuffix(str, suffix) ==
    Len(str) >= Len(suffix) /\ SubSeq(str, Len(str) - Len(suffix) + 1, Len(str)) = suffix

\* The read-only request for the details of a session
IsDetails(r) ==
    /\ r.method = "GET"
    /\ HasPrefix(r.path, "/api/sessions/")
    /\ ~HasSuffix(r.path, "/stats")

\* findUserFor has returned
FindUserReturned == join.session # NoJoinSession /\ pc # "find_user"

\* The path given with -i ("" when the flag is absent)
JoinIdentityFile == IF conf.IdentityFile = <<>> THEN "" ELSE conf.IdentityFile[1]

\* The logins of the candidate identities of a join: that of the -i file if
\* the flag is given, otherwise those of the files of ~/.ssh, as far as the
\* files make an identity.
CandidateLogins ==
    LET files == IF JoinIdentityFile # "" THEN {JoinIdentityFile}
                 ELSE {join.homeKeys[k] : k \in 1..Len(join.homeKeys)}
    IN {MakeIdentityFromFile(f).identity.Logins[1] :
           f \in {g \in files : MakeIdentityFromFile(g).err = ""}}

\* A candidate login fits a session user: it has a private key, and the two
\* public keys are equal, surrounding white space aside.
Fits(login, user) ==
    login.Key.Priv # NoKey /\ TrimSpace(login.Key.Pub) = TrimSpace(user.Key.Pub)

SomeCandidateFits ==
    \E l \in CandidateLogins, un \in DOMAIN join.session.Users :
       Fits(l, join.session.Users[un])

\* The user findUserFor returned is made of a session user and of the
\* private key of a candidate that fits it.
ReturnedUserIsMatched ==
    \E l \in CandidateLogins, un \in DOMAIN join.session.Users :
       /\ Fits(l, join.session.Users[un])
       /\ join.user.Username = un
       /\ join.user.AllowedLogins = join.session.Users[un].AllowedLogins
       /\ join.user.Key.Pub = join.session.Users[un].Key.Pub
       /\ join.user.Key.Priv = l.Key.Priv

C12_AnonymousUserAsIs ==
    (FindUserReturned /\ UsersWithKey(join.session) # {}) =>
        /\ \E un \in UsersWithKey(join.session) : join.user = join.session.Users[un]
        /\ join.read = {}
        /\ pc \in {"join_client", "connect"} \/ join.tc # "none"
              \/ err \in {"node_host_port", "new_client"}

C12_Witness ==
    /\ FindUserReturned
    /\ UsersWithKey(join.session) # {}
    /\ JoinIdentityFile # ""
    /\ IsFile(JoinIdentityFile)
    /\ join.homeKeys # <<>>
    /\ join.tc = "joined"

\* C13 as stated: for a session without private keys findUserFor succeeds
\* iff a candidate identity fits a session user, the user it returns is that
\* session user with the candidate's private key, and without a fit Join
\* fails with the key-mismatch error before an SSH client is made.
C13_MatchOrKeyMismatch ==
    (FindUserReturned /\ UsersWithKey(join.session) = {}) =>
        /\ join.user # NoUser <=> SomeCandidateFits
        /\ join.user # NoUser => ReturnedUserIsMatched
        /\ ~SomeCandidateFits =>
              pc = "done" /\ join.tc = "none" /\ err = "key_mismatch"

\* C13, amended: as above, but without a fit Join fails with the
\* key-mismatch error only if the -i file, when given, made an identity;
\* if that file cannot be read or parsed Join fails with the file's error.
C13_MatchOrKeyMismatchOrFileError ==
    (FindUserReturned /\ UsersWithKey(join.session) = {}) =>
        /\ join.user # NoUser <=> SomeCandidateFits
        /\ join.user # NoUser =>
              /\ ReturnedUserIsMatched
              /\ join.user.Key.Priv # NoKey
              /\ err \notin {"key_mismatch", "read_file", "unsupported_key_format"}
        /\ ~SomeCandidateFits =>
              /\ pc = "done"
              /\ join.tc = "none"
              /\ err = IF JoinIdentityFile # "" /\ MakeIdentityFromFile(JoinIdentityFile).err # ""
                       THEN MakeIdentityFromFile(JoinIdentityFile).err
                       ELSE "key_mismatch"

C13_Witness ==
    /\ FindUserReturned
    /\ UsersWithKey(join.session) = {}
    /\ DOMAIN join.session.Users # {}
    /\ ~SomeCandidateFits
    /\ err = "unsupported_key_format"

\* A second case of C13: a key of ~/.ssh fits a user announced without a
\* trailing newline.
C13_WitnessMatched ==
    /\ FindUserReturned
    /\ UsersWithKey(join.session) = {}
    /\ JoinIdentityFile = ""
    /\ join.user.Username = "dave0"
    /\ join.tc = "joined"

C15_VersionCheckFirst ==
    \A k \in 1..Len(wire) :
       ~IsVersion(wire[k]) => \E j \in 1..(k - 1) : IsVersion(wire[j])

\* C17 as stated: a join always decodes the id it was given and asks the
\* broker for the id without its prefix, with or without -s.
C17_AlwaysStripsPrefix ==
    (Len(join.Args) >= 2 /\ pc # "app_join") =>
        /\ join.sid = EndpointForSession(join.Args[2])[2]
        /\ \A k \in 1..Len(wire) :
              wire[k].path = GetSessionDetailsPath(EndpointForSession(join.Args[2])[2])

(***************************************************************************)
(* Claims about session ids and endpoints                                  *)
(***************************************************************************)

IsHex(str) == \A k \in 1..Len(str) : SubSeq(str, k, k) \in HexDigits

\* The host of a host or host:port string
HostOf(endpoint) == endpoint.host

InTable(endpoint) == \E i \in 1..Len(Endpoints) : Endpoints[i].Hostname = HostOf(endpoint)

\* The entry i of the table has a non-empty prefix that begins the string
Begins(i, str) ==
    /\ Endpoints[i].SessionPrefix # ""
    /\ Len(str) >= Len(Endpoints[i].SessionPrefix)
    /\ Endpoints[i].SessionPrefix \o SubSeq(str, Len(Endpoints[i].SessionPrefix) + 1, Len(str)) = str

SomePrefixBegins(str) == \E i \in 1..Len(Endpoints) : Begins(i, str)

\* C16 as stated: the id shown to the broadcaster ends with the 40 hex
\* digits posted to the broker, and EndpointForSession decodes it into the
\* host the new-session request was sent to and those 40 digits.
C16_ShownIdRoutesToBroker ==
    shown # "" =>
        \E k \in SentNewSession :
           /\ Len(wire[k].body) = 40
           /\ IsHex(wire[k].body)
           /\ wire[k].body = SessionID
           /\ HasSuffix(shown, wire[k].body)
           /\ EndpointForSession(shown) = <<wire[k].host.host, wire[k].body>>

\* C18 as stated: decoding the id shown for a host of the table gives back
\* the host and the id, for every non-empty id.
C18_RoundTripEveryId ==
    (geo.op = "decoded" /\ InTable(geo.endpoint) /\ geo.sid # "") =>
        geo.decoded = <<HostOf(geo.endpoint), geo.sid>>

\* C18, amended: decoding the id shown for a host of the table gives back
\* the host (without its port) and the id, for every non-empty id, except
\* when the host is the default one and the id itself begins with a
\* non-empty prefix of the table; ids of hex digits never do.
C18_RoundTripUnlessIdLooksPrefixed ==
    (geo.op = "decoded" /\ InTable(geo.endpoint) /\ geo.sid # "") =>
        /\ geo.decoded = <<HostOf(geo.endpoint), geo.sid>>
              <=> ~(HostOf(geo.endpoint) = DefaultServerHost /\ SomePrefixBegins(geo.sid))
        /\ IsHex(geo.sid) => geo.decoded = <<HostOf(geo.endpoint), geo.sid>>

C18_Witness ==
    /\ geo.op = "decoded"
    /\ geo.endpoint = HostPort("eu.teleconsole.com", "443")
    /\ geo.sid = "eu555"
    /\ geo.shown = "eueu555"
    /\ geo.decoded = <<"eu.teleconsole.com", "eu555">>

C21_FastestOrDefault ==
    geo.op \in {"select", "returned"} =>
        /\ geo.timer = "fired" => geo.op = "returned"
        /\ geo.op = "returned" =>
             /\ \E i \in 1..Len(Endpoints) : geo.result = Endpoints[i]
             /\ geo.via = "responded" =>
                  /\ geo.timer # "fired"
                  /\ \E i \in 1..Len(Endpoints) :
                       /\ geo.result = Endpoints[i]
                       /\ geo.ping[i] = "sent"
                       /\ geo.got[i].err = "" /\ geo.got[i].StatusCode = 200
                       /\ \A j \in 1..Len(Endpoints) : geo.ping[j] = "sent" => j = i
             /\ geo.via = "timeout" =>
                  /\ geo.result = DefaultEndpoint
                  /\ \A i \in 1..Len(Endpoints) : geo.ping[i] # "sent"

\* The European endpoint was the first to answer 200; the default one
\* answered 200 after the function had returned, the Asian one refused.
C21_Witness ==
    /\ geo.op = "returned"
    /\ geo.via = "responded"
    /\ geo.result = Endpoints[2]
    /\ geo.ping[1] = "blocked"
    /\ geo.ping[3] = "returned"

\* StartBroadcast or Join has been entered and has gone past its first check
BroadcastEntered == join = NoJoin /\ pc # "start"
JoinEntered == join # NoJoin /\ pc \notin {"app_join", "join"} /\ err # "need_session_id"

\* Nothing was sent to the broker, and no identity, port, site or client exists
NothingDone ==
    /\ wire = <<>>
    /\ BroadcastIdle
    /\ join # NoJoin => (join.tc = "none" /\ join.session = NoJoinSession /\ join.user = NoUser)

C23_PublishNeverCrashes ==
    /\ pc \notin {"panic", "crashed"}
    /\ ~panicking

\* C24: once StartBroadcast has rewritten the address the broker reported
\* for the reverse tunnel, the address is the host of the client's endpoint
\* with the port the broker reported, and its host is not empty.
C24_ReplaceHostKeepsEndpointHost ==
    (sess # NoSession /\ sess.ListenAddr # BrokerListenAddr) =>
        /\ sess.ListenAddr.host # ""
        /\ sess.ListenAddr = HostPort(Endpoint.Host.host, BrokerListenAddr.port)

\* The labels of an identity's logins
Labels(id) == {id.Logins[i].Username : i \in 1..Len(id.Logins)}

\* The user map LoginUsers makes of an identity is as C25 says
LoginUsersAsClaimed(id) ==
    LET users == LoginUsers(id) IN
    /\ DOMAIN users = Labels(id)
    /\ \A label \in DOMAIN users :
         /\ users[label].Username = label
         /\ users[label].AllowedLogins =
               IF label = id.Username THEN <<id.Username>> ELSE <<id.Username, label>>
    /\ id.Anonymous =>
         /\ DOMAIN users = {OsUser}
         /\ users[OsUser].Key.Pub # NoKey
         /\ users[OsUser].Key.Priv # NoKey

\* C25: for the identities StartBroadcast has made, LoginUsers maps every
\* label to a user of that name whose allowed logins are the OS user alone
\* when the label is the OS user, and the OS user followed by the label
\* otherwise; the anonymous identity gives one user, with both halves of
\* its key.
C25_LoginUsersAllowedLogins ==
    /\ me # NoIdentity => LoginUsersAsClaimed(me)
    /\ them # NoIdentity => LoginUsersAsClaimed(them)

\* A named identity with two labels beside the anonymous one, and the site
\* created with the users of both.
C25_Witness ==
    /\ me.Anonymous
    /\ ~them.Anonymous
    /\ Cardinality(Labels(them)) = 2
    /\ site = "created"
    /\ OsUser \in DOMAIN localUsers
    /\ localUsers[OsUser].AllowedLogins = <<OsUser>>

\* C26: the labels of the logins of an identity are pairwise distinct, so
\* the user maps of LoginUsers and AnnounceUsers have one entry for each
\* login and every login's public key is in them.
C26_LabelsAreDistinct ==
    them # NoIdentity =>
        /\ \A i, j \in 1..Len(them.Logins) :
              them.Logins[i].Username = them.Logins[j].Username => i = j
        /\ Cardinality(DOMAIN LoginUsers(them)) = Len(them.Logins)
        /\ Cardinality(DOMAIN AnnounceUsers(them)) = Len(them.Logins)
        /\ \A i \in 1..Len(them.Logins) :
              \E u \in DOMAIN AnnounceUsers(them) :
                 AnnounceUsers(them)[u].Key.Pub = them.Logins[i].Key.Pub

\* C30: the callback publishSession runs in leaves the polling loop after
\* finitely many polls, whatever the site answers: a poll is always followed,
\* sooner or later, by the end of the polling.
C30_PollingEnds == (pc = "publish_poll") ~> (pc # "publish_poll")

\* A host name or address: letters, digits, dots and dashes
IsHostName(str) ==
    /\ Len(str) > 0
    /\ \A i \in 1..Len(str) :
          \/ SubSeq(str, i, i) \in {".", "-"}
          \/ \E d \in 0..9 : SubSeq(str, i, i) = ToString(d)
          \/ getscheme(SubSeq(str, i, i) \o ":").scheme # ""

\* The part of str after its first n characters
After(str, n) == SubSeq(str, n + 1, Len(str))

\* C27: ParseForwardAddr gives (localhost, N) for a number N, (host, port)
\* for host:port, (host, 80) for http://host and (host, 443) for
\* https://host, and an error for a bare word.
C27_ForwardShapes ==
    lib.op = "parsed" =>
        LET spec == lib.spec IN
        /\ IsDigits(spec) => lib.p = Forwarded("localhost", DigitsValue(spec))
        /\ \A i \in 1..Len(spec) :
              (/\ SubSeq(spec, i, i) = ":"
               /\ IsHostName(SubSeq(spec, 1, i - 1))
               /\ IsDigits(After(spec, i)))
              => lib.p = Forwarded(SubSeq(spec, 1, i - 1), DigitsValue(After(spec, i)))
        /\ (HasPrefix(spec, "http://") /\ IsHostName(After(spec, 7)))
              => lib.p = Forwarded(After(spec, 7), 80)
        /\ (HasPrefix(spec, "https://") /\ IsHostName(After(spec, 8)))
              => lib.p = Forwarded(After(spec, 8), 443)
        /\ (IsHostName(spec) /\ ~IsDigits(spec) /\ SubSeq(spec, 1, 1) # "-")
              => lib.p.err # ""

\* C28: a TTLMap never holds more entries than its capacity (none, for a
\* capacity of zero or less). Writing a new key into a full map removes
\* one entry before: an expired one when there is one, and otherwise the
\* entry that expires first. Writing a key the map holds leaves its size.
C28_TTLMapBounded ==
    holster.kind = "ttlmap" =>
        LET els == holster.elements
            last == holster.last
            before == last.before
        IN /\ Cardinality(DOMAIN els) <= holster.capacity
           /\ (last.err = "" /\ last.key \in DOMAIN before) =>
                 DOMAIN els = DOMAIN before
           /\ (last.op # "new" /\ last.err = "" /\ last.key \notin DOMAIN before
                 /\ Cardinality(DOMAIN before) >= holster.capacity /\ DOMAIN before # {}) =>
                 /\ last.evicted \in DOMAIN before
                 /\ DOMAIN els = (DOMAIN before \ {last.evicted}) \cup {last.key}
                 /\ \A k \in DOMAIN before :
                       before[last.evicted].Priority <= before[k].Priority

\* C29: whenever Each() deletes a key, the entry the cache held for it had
\* expired, and the value of that entry had been passed to the callback:
\* an entry that Add or Get refreshed before the check, or whose value the
\* callback never saw, stays.
C29_RemovedOnlyExpiredAndProcessed ==
    (holster.kind = "expirecache" /\ holster.removed # NoRemoval) =>
        /\ holster.removed.ExpireAt < holster.removed.now
        /\ holster.removed.passed

\* ---------------------------------------------------------------------
\* The session's secrets, the reverse tunnel and the rest of the broadcast
\* ---------------------------------------------------------------------

\* C31: once RequestNewSession has returned a session, no step of the
\* broadcast changes the users or the listen address of its secrets.
C31_SecretsNeverMutated ==
    [][sess # NoSession =>
         /\ sess'.Users = sess.Users
         /\ sess'.ListenAddr = sess.ListenAddr]_vars

\* The POST of publishSession was refused: publishSession has stopped the
\* local site (clt.go:219) and the teardown has not begun.
PublishRefused == site = "stopped" /\ pc \in {"stats", "shell"}

\* C34: when PublishSessionID has failed the shell-created callback is over:
\* the tunnel check is not entered, the last request on the wire is the
\* refused POST and not a stats probe, and no session id has been shown.
C34_FailedPublishEndsCallback ==
    PublishRefused =>
        /\ pc # "stats"
        /\ ~IsStats(wire[Len(wire)])
        /\ shown = ""

\* C37: no ping goroutine of FindFastestEndpoint is left blocked on the
\* send of its endpoint: once the function has returned, from the channel
\* or from the timer, every goroutine whose ping was answered has finished.
C37_NoPingLeftBlocked ==
    geo.op = "returned" =>
        \A i \in 1..Len(Endpoints) : geo.ping[i] \in {"get", "returned", "sent"}

\* C39: when StartBroadcast goes on past GetFreePorts, which it does only
\* for a nil error, it holds NumPorts port numbers and none of them is zero.
C39_FreePortsOrError ==
    (pc = "new_instance" /\ err = "-") =>
        /\ Len(ports) = NumPorts
        /\ \A k \in 1..Len(ports) : ports[k] # 0

\* C35: when CheckVersion has failed on a third redirect in a row, the
\* client's endpoint is the one its last request was sent to, which is the
\* Location of the second redirect; the Location of the third, which is
\* not queried, has not been stored.
C35_EndpointIsLastQueried ==
    (cvI > maxRedirects /\ pc = "done") =>
        /\ IsVersion(wire[Len(wire)])
        /\ Endpoint.Host = wire[Len(wire)].host

\* The forward specs a value of Config.ForwardPorts holds: none for the nil
\* slice, the spec of the -L flag (part_022:123), or the one invited port
\* bound to 127.0.0.1:9000 (clt.go:276-278).
ForwardSpecsOf(fp) ==
    IF fp = "nil" THEN {}
    ELSE IF fp = "set" THEN {"-L"}
    ELSE {"127.0.0.1:9000"}

\* C38: building the SSH client, Join adds the forward of 127.0.0.1:9000
\* to the forward specs of the joiner's configuration when the session
\* carries an invited port, and leaves the configuration's forward specs as
\* they are when it carries none.
C38_InviteKeepsForwards ==
    [][pc = "join_client" =>
         IF join.session.ForwardedPort # NoPort
         THEN conf'.ForwardPorts = "invite"
              /\ ForwardSpecsOf(conf.ForwardPorts) \subseteq ForwardSpecsOf(conf'.ForwardPorts)
         ELSE conf'.ForwardPorts = conf.ForwardPorts]_vars

\* The identity StartBroadcast minted for the joining parties (clt.go:63-78)
MintedForThem ==
    MakeIdentity(IF conf.IdentityFile # <<>> THEN conf.IdentityFile ELSE <<>>).identity

C32_MissedHeartbeatEndsTunnel ==
    [][\A t \in 1..MaxHeartbeats :
         (agent.task[t] = "failed" /\ agent.cause[t] \in {"ping", "connection_closed"}) =>
             /\ agent.conn[t] = "closed"
             /\ agent'.task[t] = "exited" => agent'.dialed = agent.dialed]_vars

\* C33: the heartbeat period the agent's tickers run with is half of
\* SyncRefreshInterval.
C33_HeartbeatIsHalfRefresh ==
    agent.period * 2 = SyncRefreshInterval

\* C36: every dial of the agent was made before Close(): none of them found
\* broadcastClose closed.
C36_NoDialAfterClose ==
    \A i \in 1..Len(agent.dialed) : ~agent.dialed[i]

====
